---- MODULE Spec2Model ----
(***************************************************************************)
(* Shewhart control limits (shewhart/shewhart_functions.py).               *)
(*                                                                         *)
(* The three limit operations i_chart_limits, p_chart_limits and           *)
(* u_chart_limits and the plot operation shewhart_plot are modelled as     *)
(* operators over a small data-frame algebra (columns, rows, sort,         *)
(* group-by, merge), and a caller that holds a source table and a strats   *)
(* list calls them in any order.                                           *)
(*                                                                         *)
(* Numbers.  A float is a pair <<n, d>> with d >= 0: a reduced fraction    *)
(* when d > 0, +inf / -inf as <<1, 0>> / <<-1, 0>> and NaN as <<0, 0>>.    *)
(* Arithmetic follows IEEE-754 as numpy applies it (x/0 is inf or NaN and  *)
(* raises nothing, NaN compares false, sum() and count() skip NaN) but is  *)
(* exact on finite values; signed zeros are not distinguished.  The        *)
(* square root is rounded down to a multiple of 1/SqrtScale.               *)
(***************************************************************************)
EXTENDS Integers, Sequences, FiniteSets, TLC

\* ------------------------------------------------------------------ bounds
MaxRows == 2
SqrtScale == 8

\* ---------------------------------------------------------------- binding
\* With([x \in {v} |-> e]) is e with x bound to the value of v, which is
\* evaluated once, before e.
With(f) == f[CHOOSE x \in DOMAIN f : TRUE]

\* ------------------------------------------------------------ float layer
RECURSIVE Gcd(_, _)
Gcd(a, b) == IF b = 0 THEN a ELSE With([r \in {a % b} |-> Gcd(b, r)])

AbsInt(x) == IF x < 0 THEN -x ELSE x

SignInt(x) == IF x < 0 THEN -1 ELSE IF x > 0 THEN 1 ELSE 0

NaN == <<0, 0>>

Inf(s) == <<s, 0>>

\* the float n/d, d > 0, in lowest terms
Frac(n, d) ==
    With([p \in {n}, q \in {d} |->
    With([g \in {Gcd(AbsInt(p), q)} |-> <<p \div g, q \div g>>])])

Num(i) == <<i, 1>>

IsNaN(a) == a[2] = 0 /\ a[1] = 0

IsInf(a) == a[2] = 0 /\ a[1] # 0

IsFinite(a) == a[2] > 0

Sign(a) == SignInt(a[1])

Neg(a) == With([x \in {a} |-> <<-x[1], x[2]>>])

Abs(a) == With([x \in {a} |-> <<AbsInt(x[1]), x[2]>>])

Add(a, b) ==
    With([x \in {a}, y \in {b} |->
    IF IsNaN(x) \/ IsNaN(y) THEN NaN
    ELSE IF IsInf(x) /\ IsInf(y) THEN (IF x[1] = y[1] THEN x ELSE NaN)
    ELSE IF IsInf(x) THEN x
    ELSE IF IsInf(y) THEN y
    ELSE With([g \in {Gcd(x[2], y[2])} |->
         Frac(x[1] * (y[2] \div g) + y[1] * (x[2] \div g), (x[2] \div g) * y[2])])])

Sub(a, b) == Add(a, Neg(b))

Mul(a, b) ==
    With([x \in {a}, y \in {b} |->
    IF IsNaN(x) \/ IsNaN(y) THEN NaN
    ELSE IF IsInf(x) \/ IsInf(y)
         THEN (IF Sign(x) * Sign(y) = 0 THEN NaN ELSE Inf(Sign(x) * Sign(y)))
    ELSE With([g1 \in {Gcd(AbsInt(x[1]), y[2])}, g2 \in {Gcd(AbsInt(y[1]), x[2])} |->
         <<(x[1] \div g1) * (y[1] \div g2), (x[2] \div g2) * (y[2] \div g1)>>])])

\* numpy float division: a zero divisor gives inf or NaN, never an exception
Div(a, b) ==
    With([x \in {a}, y \in {b} |->
    IF IsNaN(x) \/ IsNaN(y) THEN NaN
    ELSE IF IsInf(y) THEN (IF IsInf(x) THEN NaN ELSE Num(0))
    ELSE IF IsInf(x) THEN (IF Sign(y) < 0 THEN Neg(x) ELSE x)
    ELSE IF y[1] = 0 THEN (IF x[1] = 0 THEN NaN ELSE Inf(Sign(x)))
    ELSE Mul(x, <<Sign(y) * y[2], AbsInt(y[1])>>)])

Lt(a, b) ==
    With([x \in {a}, y \in {b} |->
    IF IsNaN(x) \/ IsNaN(y) THEN FALSE
    ELSE IF IsInf(x) THEN x[1] < 0 /\ y # x
    ELSE IF IsInf(y) THEN y[1] > 0
    ELSE With([g \in {Gcd(x[2], y[2])} |-> x[1] * (y[2] \div g) < y[1] * (x[2] \div g)])])

Gt(a, b) == Lt(b, a)

Le(a, b) ==
    With([x \in {a}, y \in {b} |-> IF IsNaN(x) \/ IsNaN(y) THEN FALSE ELSE ~Lt(y, x)])

\* floor of the integer square root, by bisection on lo..hi
RECURSIVE ISqrtIn(_, _, _)
ISqrtIn(x, lo, hi) ==
    IF lo >= hi THEN lo
    ELSE With([mid \in {(lo + hi + 1) \div 2} |->
         IF mid * mid <= x THEN ISqrtIn(x, mid, hi) ELSE ISqrtIn(x, lo, mid - 1)])

ISqrt(x) == With([v \in {x} |-> ISqrtIn(v, 0, IF v < 46340 THEN v ELSE 46340)])

\* x ** .5 on a float column: NaN below zero, exact on squares
Sqrt(a) ==
    With([x \in {a} |->
    IF IsNaN(x) THEN NaN
    ELSE IF IsInf(x) THEN (IF x[1] > 0 THEN x ELSE NaN)
    ELSE IF x[1] < 0 THEN NaN
    ELSE Frac(ISqrt(x[1] * x[2] * SqrtScale * SqrtScale), x[2] * SqrtScale)])

\* ------------------------------------------------------- data-frame layer
\* A DataFrame is [cols |-> sequence of column labels, rows |-> sequence of
\* rows], a row being a function from the labels to floats.
EmptyFrame == [cols |-> <<>>, rows |-> <<>>]

SeqToSet(s) == {s[i] : i \in 1..Len(s)}

HasCol(df, c) == c \in SeqToSet(df.cols)

HasCols(df, cs) == \A i \in 1..Len(cs) : HasCol(df, cs[i])

NRows(df) == Len(df.rows)

\* df[c] as a sequence
Col(df, c) == With([rows \in {df.rows} |-> [i \in 1..Len(rows) |-> rows[i][c]]])

\* a column computed row by row
EachRow(df, f) == With([rows \in {df.rows} |-> [i \in 1..Len(rows) |-> f[rows[i]]]])

\* a scalar assigned to a column
Broadcast(df, v) == With([n \in {NRows(df)}, x \in {v} |-> [i \in 1..n |-> x]])

\* df[c] = v : overwrites the column when the label exists, else appends it
SetCol(df, c, v) ==
    With([d \in {df}, w \in {v} |->
    [cols |-> IF HasCol(d, c) THEN d.cols ELSE Append(d.cols, c),
     rows |-> [i \in 1..NRows(d) |->
                 [k \in (DOMAIN d.rows[i]) \cup {c} |->
                    IF k = c THEN w[i] ELSE d.rows[i][k]]]]])

\* the members of s whose flag in keep is set
FilterSeq(s, keep) ==
    With([x \in {s}, k \in {keep} |->
    With([on \in {{i \in 1..Len(x) : k[i]}} |->
    [j \in 1..Cardinality(on) |->
       x[CHOOSE i \in on : Cardinality({m \in on : m <= i}) = j]]])])

\* df[mask]
Filter(df, keep) == With([d \in {df} |-> [cols |-> d.cols, rows |-> FilterSeq(d.rows, keep)]])

\* variant of the selection that keeps every column of the frame
SelectAll(df, cs) == df

\* df[cs] with cs a list of labels (labels may repeat)
Select(df, cs) ==
    With([d \in {df}, c \in {cs} |->
    [cols |-> c,
     rows |-> [i \in 1..NRows(d) |-> [k \in SeqToSet(c) |-> d.rows[i][k]]]]])

KeyOf(row, keys) == [j \in 1..Len(keys) |-> row[keys[j]]]

\* lexicographic order on key tuples
KeyLt(a, b) ==
    With([x \in {a}, y \in {b} |->
    \E j \in 1..Len(x) :
       /\ Lt(x[j], y[j])
       /\ \A m \in 1..(j - 1) : ~Lt(x[m], y[m]) /\ ~Lt(y[m], x[m])])

\* The rows sorted by keys.  Row i goes to the place counted by the rows
\* that sort before it; among rows with equal keys the earlier row comes
\* first when the sort is stable, and last otherwise.
SortRows(rows, keys, stable) ==
    With([r \in {rows} |->
    With([k \in {[i \in 1..Len(r) |-> KeyOf(r[i], keys)]} |->
    With([place \in {[i \in 1..Len(r) |->
           1 + Cardinality({j \in 1..Len(r) :
                 \/ KeyLt(k[j], k[i])
                 \/ /\ ~KeyLt(k[i], k[j])
                    /\ IF stable THEN j < i ELSE j > i})]} |->
    [q \in 1..Len(r) |-> r[CHOOSE i \in 1..Len(r) : place[i] = q]]])])])

\* variant of the sort that leaves the rows as they come
sort_values_as_given(df, keys, stable) == df

\* df.sort_values(keys, ascending=True).reset_index(drop=True)
sort_values(df, keys, stable) ==
    With([d \in {df} |-> [cols |-> d.cols, rows |-> SortRows(d.rows, keys, stable)]])

\* the distinct key tuples of df, ascending (groupby sorts its keys)
GroupKeys(df, keys) ==
    With([sorted \in {SortRows(df.rows, keys, TRUE)} |->
    With([k \in {[i \in 1..Len(sorted) |-> KeyOf(sorted[i], keys)]} |->
    FilterSeq(k, [i \in 1..Len(k) |-> i = 1 \/ k[i] # k[i - 1]])])])

\* Series.sum() and Series.count(): NaN entries are skipped
RECURSIVE SumSkipNa(_)
SumSkipNa(s) ==
    With([x \in {s} |->
    IF x = <<>> THEN Num(0)
    ELSE IF IsNaN(Head(x)) THEN SumSkipNa(Tail(x))
    ELSE Add(Head(x), SumSkipNa(Tail(x)))])

CountNotNa(s) == With([x \in {s} |-> Cardinality({i \in 1..Len(x) : ~IsNaN(x[i])})])

\* the values of column c on the rows of group k
GroupCol(df, keys, k, c) ==
    With([d \in {df}, g \in {k} |->
    FilterSeq(Col(d, c), [i \in 1..NRows(d) |-> KeyOf(d.rows[i], keys) = g])])

\* df.groupby(keys)[c].transform('sum')
GroupTransformSum(df, keys, c) ==
    With([d \in {df} |->
    [i \in 1..NRows(d) |-> SumSkipNa(GroupCol(d, keys, KeyOf(d.rows[i], keys), c))]])

\* df.groupby(keys)[c].transform('count')
GroupTransformCount(df, keys, c) ==
    With([d \in {df} |->
    [i \in 1..NRows(d) |-> Num(CountNotNa(GroupCol(d, keys, KeyOf(d.rows[i], keys), c)))]])

\* df[c].shift(1), and df.groupby(keys)[c].shift(1): the value of the
\* previous row (of the same group), NaN on the first
\* variant of the shift that takes 0 as the value before the first row
ShiftZero(df, c) ==
    With([rows \in {df.rows} |-> [i \in 1..Len(rows) |-> IF i = 1 THEN Num(0) ELSE rows[i - 1][c]]])

Shift(df, c) ==
    With([rows \in {df.rows} |-> [i \in 1..Len(rows) |-> IF i = 1 THEN NaN ELSE rows[i - 1][c]]])

GroupShift(df, keys, c) ==
    With([rows \in {df.rows} |->
    [i \in 1..Len(rows) |->
       With([prev \in {{j \in 1..(i - 1) : KeyOf(rows[j], keys) = KeyOf(rows[i], keys)}} |->
       IF prev = {} THEN NaN
       ELSE rows[CHOOSE j \in prev : \A m \in prev : m <= j][c]])]])

\* df.groupby(keys) aggregated to the sum of c1 and the count of c2, with
\* reset_index() and the two aggregates named n1 and n2: one row per key
\* present in df
GroupAgg(df, keys, c1, n1, c2, n2) ==
    With([d \in {df} |->
    With([ks \in {GroupKeys(d, keys)} |->
    [cols |-> keys \o <<n1, n2>>,
     rows |-> [g \in 1..Len(ks) |->
                 With([sum \in {SumSkipNa(GroupCol(d, keys, ks[g], c1))},
                         count \in {Num(CountNotNa(GroupCol(d, keys, ks[g], c2)))} |->
                 [k \in SeqToSet(keys) \cup {n1, n2} |->
                    IF k = n1 THEN sum
                    ELSE IF k = n2 THEN count
                    ELSE ks[g][CHOOSE j \in 1..Len(keys) : keys[j] = k]]])]]])])

\* left.merge(right, on=keys, how='inner'): the rows of left, in order,
\* each joined to every row of right with the same key; a row of left with
\* no partner is dropped.  A label held by both sides outside the keys is
\* renamed label_x on the left and label_y on the right.
MergeLabel(c, keys, other, suffix) ==
    IF c \notin SeqToSet(keys) /\ c \in SeqToSet(other) THEN c \o suffix ELSE c

RECURSIVE Flatten(_)
Flatten(ss) == With([x \in {ss} |-> IF x = <<>> THEN <<>> ELSE Head(x) \o Flatten(Tail(x))])

merge(left, right, keys) ==
    With([l \in {left}, r \in {right} |->
    With([rrest \in {FilterSeq(r.cols, [i \in 1..Len(r.cols) |->
            r.cols[i] \notin SeqToSet(keys)])} |->
    With([lcols \in {[i \in 1..Len(l.cols) |-> MergeLabel(l.cols[i], keys, r.cols, "_x")]},
            rcols \in {[i \in 1..Len(rrest) |-> MergeLabel(rrest[i], keys, l.cols, "_y")]} |->
    [cols |-> lcols \o rcols,
     rows |-> Flatten([i \in 1..NRows(l) |->
                 With([hits \in {FilterSeq(r.rows, [j \in 1..NRows(r) |->
                        KeyOf(r.rows[j], keys) = KeyOf(l.rows[i], keys)])} |->
                 [h \in 1..Len(hits) |->
                    [k \in SeqToSet(lcols) \cup SeqToSet(rcols) |->
                       IF k \in SeqToSet(lcols)
                       THEN l.rows[i][l.cols[CHOOSE m \in 1..Len(lcols) : lcols[m] = k]]
                       ELSE hits[h][rrest[CHOOSE m \in 1..Len(rcols) : rcols[m] = k]]]]])])]])])])

\* ------------------------------------------------------ outcome of a call
\* A call returns a DataFrame, returns None, or raises.
Returned(df) == [kind |-> "table", df |-> df, exc |-> ""]

ReturnedNone == [kind |-> "none", df |-> EmptyFrame, exc |-> ""]

Raised(e) == [kind |-> "raise", df |-> EmptyFrame, exc |-> e]

\* A strats argument: a list, a sized value that is no list (a tuple), or
\* a value without a length (None).
List(items) == [kind |-> "list", items |-> items]

Tuple(items) == [kind |-> "tuple", items |-> items]

None == [kind |-> "none", items |-> <<>>]

\* variant without the copy: the local name and the caller's frame are one
\* object, so every in-place assignment shows in the caller's frame
frame_shared(df) == [df |-> df, shared |-> TRUE]

\* dat.copy(): a new frame that shares nothing with the caller's
frame_copy(df) == [df |-> df, shared |-> FALSE]

\* variant without the copy: the append lands in the caller's strats list
append_in_place(strats, sort_val) ==
    [keys |-> Append(strats.items, sort_val),
     strats |-> [strats EXCEPT !.items = Append(strats.items, sort_val)]]

\* strats.copy() followed by .append(sort_val): the local key list, and the
\* strats object as the two statements leave it
copy_append(strats, sort_val) ==
    [keys |-> Append(strats.items, sort_val), strats |-> strats]

\* variant of the screen whose threshold is half the initial estimate
ScreenFactorHalf == Frac(1, 2)

\* variant of the screen whose threshold is the initial estimate itself
ScreenFactorOne == Num(1)

\* the literals 3.27, 2.66 and 1.128
ScreenFactor == Frac(327, 100)

\* variant of the width of the I limits: the multiplier 3 of the P and U limits
LimitFactorThree == Num(3)

LimitFactor == Frac(266, 100)

\* variant of the prime multiplier that is the screened estimate undivided
SigmaDivisorOne == Num(1)

SigmaDivisor == Frac(1128, 1000)

\* variant of the strats check without the isinstance test
strats_rejected_if_empty(strats) == Len(strats.items) = 0

\* the strats check: multi_strats with an empty or non-list strats
strats_rejected(strats) == (Len(strats.items) = 0) \/ (strats.kind # "list")

\* variant of the weight that measures the distance in widths of the whole
\* band from lcl to ucl
sc_weight_band(val, lcl, bar, ucl) ==
    IF Lt(val, lcl) THEN Mul(Div(Sub(lcl, val), Sub(ucl, lcl)), Num(-1))
    ELSE IF Gt(val, ucl) THEN Div(Sub(val, ucl), Sub(ucl, lcl))
    ELSE Num(0)

\* variant of the weight without the multiplication by -1 below the lower limit
sc_weight_unsigned(val, lcl, bar, ucl) ==
    IF Lt(val, lcl) THEN Div(Sub(lcl, val), Sub(bar, lcl))
    ELSE IF Gt(val, ucl) THEN Div(Sub(val, ucl), Sub(ucl, bar))
    ELSE Num(0)

\* np.where(val < lcl, (lcl-val)/(bar-lcl) * -1, np.where(val > ucl, (val-ucl)/(ucl-bar), 0))
sc_weight(val, lcl, bar, ucl) ==
    IF Lt(val, lcl) THEN Mul(Div(Sub(lcl, val), Sub(bar, lcl)), Num(-1))
    ELSE IF Gt(val, ucl) THEN Div(Sub(val, ucl), Sub(ucl, bar))
    ELSE Num(0)

\* np.absolute(a - b), element by element
AbsDiff(a, b) == With([x \in {a}, y \in {b} |-> [i \in 1..Len(x) |-> Abs(Sub(x[i], y[i]))]])

\* ---------------------------------------------------------- i_chart_limits
\* the final statements: special cause weights and the column selection
i_finish(df, original_columns) ==
    With([d \in {SetCol(df, "sc_weight",
               EachRow(df, [r \in SeqToSet(df.rows) |-> sc_weight(r["val"], r["lcl"], r["i_bar"], r["ucl"])]))} |->
    With([out \in {original_columns \o <<"i_bar", "lcl", "ucl", "sc_weight">>} |->
    IF HasCols(d, out) THEN Returned(Select(d, out)) ELSE Raised("KeyError")])])

\* multi_strats == False: the frame in order, with the moving range mr0 of
\* each row to the row before it
i_single_mr0(df, sort_val, stable) ==
    With([d1 \in {sort_values(df, <<sort_val>>, stable)} |->
    SetCol(d1, "mr0", AbsDiff(Col(d1, "val"), Shift(d1, "val")))])

\* variant of the screen that also drops a moving range equal to the threshold
i_single_screen_strict(df) ==
    With([mr0_bar \in {Div(SumSkipNa(Col(df, "mr0")), Num(NRows(df) - 1))} |->
    With([ul_mr \in {Mul(ScreenFactor, mr0_bar)} |->
    With([dat2 \in {Filter(df, EachRow(df, [r \in SeqToSet(df.rows) |-> Lt(r["mr0"], ul_mr)]))} |->
    [mr0_bar |-> mr0_bar, ul_mr |-> ul_mr, dat2 |-> dat2,
     mr_bar |-> Div(SumSkipNa(Col(dat2, "mr0")), Num(NRows(dat2)))]])])])

\* the two passes of the moving-range screen on the whole frame
i_single_screen(df) ==
    With([mr0_bar \in {Div(SumSkipNa(Col(df, "mr0")), Num(NRows(df) - 1))} |->
    With([ul_mr \in {Mul(ScreenFactor, mr0_bar)} |->
    With([dat2 \in {Filter(df, EachRow(df, [r \in SeqToSet(df.rows) |-> Le(r["mr0"], ul_mr)]))} |->
    [mr0_bar |-> mr0_bar, ul_mr |-> ul_mr, dat2 |-> dat2,
     mr_bar |-> Div(SumSkipNa(Col(dat2, "mr0")), Num(NRows(dat2)))]])])])

\* multi_strats == False: one set of limits for the whole frame
i_single(df, original_columns, focal_val, sort_val, stable) ==
    IF ~HasCol(df, sort_val) THEN Raised("KeyError")
    ELSE
    With([d2 \in {i_single_mr0(df, sort_val, stable)} |->
    With([mr_bar \in {i_single_screen(d2).mr_bar} |->
    With([d3 \in {SetCol(d2, "i_bar",
                  Broadcast(d2, Div(SumSkipNa(Col(d2, focal_val)), Num(NRows(d2)))))} |->
    With([d4 \in {SetCol(d3, "lcl", EachRow(d3, [r \in SeqToSet(d3.rows) |->
                  Sub(r["i_bar"], Mul(LimitFactor, mr_bar))]))} |->
    With([d5 \in {SetCol(d4, "ucl", EachRow(d4, [r \in SeqToSet(d4.rows) |->
                  Add(r["i_bar"], Mul(LimitFactor, mr_bar))]))} |->
    i_finish(d5, original_columns)])])])])])

\* the limits of each stratum from its i_bar and mr_bar
i_multi_limits(df, original_columns, focal_val, strats) ==
    IF ~HasCols(df, <<focal_val, "mr_bar">>) THEN Raised("KeyError")
    ELSE
    With([tsum \in {GroupTransformSum(df, strats, focal_val)},
            tcnt \in {GroupTransformCount(df, strats, focal_val)} |->
    With([d5 \in {SetCol(df, "i_bar", [i \in 1..NRows(df) |-> Div(tsum[i], tcnt[i])])} |->
    With([d6 \in {SetCol(d5, "lcl",
               EachRow(d5, [r \in SeqToSet(d5.rows) |-> Sub(r["i_bar"], Mul(LimitFactor, r["mr_bar"]))]))} |->
    With([d7 \in {SetCol(d6, "ucl",
               EachRow(d6, [r \in SeqToSet(d6.rows) |-> Add(r["i_bar"], Mul(LimitFactor, r["mr_bar"]))]))} |->
    i_finish(d7, original_columns)])])])])

\* the second pass per stratum: mr_bar of the moving ranges within ul_mr
i_multi_screen(df, original_columns, focal_val, sort_val, strats) ==
    IF ~HasCols(df, <<"mr0", "ul_mr">>) THEN Raised("KeyError")
    ELSE
    With([dat2 \in {Filter(df, EachRow(df, [r \in SeqToSet(df.rows) |-> Le(r["mr0"], r["ul_mr"])]))} |->
    With([h0 \in {GroupAgg(dat2, strats, "mr0", "mr_sum", sort_val, "length")} |->
    With([mr_bar_dat \in {SetCol(h0, "mr_bar", EachRow(h0, [r \in SeqToSet(h0.rows) |-> Div(r["mr_sum"],
            r["length"])]))} |->
    With([d4 \in {merge(df, Select(mr_bar_dat, Append(strats, "mr_bar")), strats)} |->
    i_multi_limits(d4, original_columns, focal_val, strats)])])])])

\* multi_strats == True: one set of limits per stratum
i_multi(df, original_columns, focal_val, sort_val, keys, strats) ==
    IF ~HasCols(df, keys) THEN Raised("KeyError")
    ELSE
    With([d1 \in {sort_values(df, keys, TRUE)} |->
    With([d2 \in {SetCol(d1, "mr0", AbsDiff(Col(d1, "val"), GroupShift(d1, strats, "val")))} |->
    With([g0 \in {GroupAgg(d2, strats, "mr0", "mr0_sum", sort_val, "length")} |->
    With([g1 \in {SetCol(g0, "mr0_bar",
               EachRow(g0, [r \in SeqToSet(g0.rows) |-> Div(r["mr0_sum"], Sub(r["length"], Num(1)))]))} |->
    With([mr0_bar_dat \in {SetCol(g1, "ul_mr", EachRow(g1, [r \in SeqToSet(g1.rows) |-> Mul(ScreenFactor,
            r["mr0_bar"])]))} |->
    With([d3 \in {merge(d2, Select(mr0_bar_dat, Append(strats, "ul_mr")), strats)} |->
    i_multi_screen(d3, original_columns, focal_val, sort_val, strats)])])])])])])

\* The call as a whole: what it returns (ret), the caller's frame (dat) and
\* strats object (strats) as the call leaves them, and the call's own frame
\* (work) as the statements before the sort left it, or as it was when the
\* call ended if it ended before the sort.
i_chart_limits(dat, focal_val, sort_val, multi_strats, strats, stable) ==
    With([c \in {frame_copy(dat)} |->
    With([original_columns \in {c.df.cols} |->
    IF ~HasCol(c.df, focal_val)
    THEN [ret |-> Raised("KeyError"), dat |-> dat, strats |-> strats, work |-> c.df]
    ELSE
    With([d0 \in {SetCol(c.df, "val", Col(c.df, focal_val))} |->
    With([after \in {IF c.shared THEN d0 ELSE dat} |->
    IF ~multi_strats
    THEN [ret |-> i_single(d0, original_columns, focal_val, sort_val, stable),
          dat |-> after, strats |-> strats, work |-> d0]
    ELSE IF strats.kind = "none"
    THEN [ret |-> Raised("TypeError"), dat |-> after, strats |-> strats, work |-> d0]
    ELSE IF strats_rejected(strats)
    THEN [ret |-> ReturnedNone, dat |-> after, strats |-> strats, work |-> d0]
    ELSE With([k \in {copy_append(strats, sort_val)} |->
         [ret |-> i_multi(d0, original_columns, focal_val, sort_val, k.keys,
                          k.strats.items),
          dat |-> after, strats |-> k.strats, work |-> d0]])])])])])

\* ---------------------------------------------------------- p_chart_limits
\* variant of the final statements that clamps the lower limit of a proportion at 0
p_finish_clamped(df, original_columns) ==
    IF ~HasCols(df, <<"p_bar", "p_std", "mr_bar_std">>) THEN Raised("KeyError")
    ELSE
    With([d1 \in {SetCol(df, "lcl", EachRow(df, [r \in SeqToSet(df.rows) |->
               IF Lt(Sub(r["p_bar"], Mul(Num(3), r["p_std"])), Num(0)) THEN Num(0)
               ELSE Sub(r["p_bar"], Mul(Num(3), r["p_std"]))]))} |->
    With([d2 \in {SetCol(d1, "ucl", EachRow(d1, [r \in SeqToSet(d1.rows) |-> Add(r["p_bar"], Mul(Num(3),
            r["p_std"]))]))} |->
    With([d3 \in {SetCol(d2, "lcl_prime", EachRow(d2, [r \in SeqToSet(d2.rows) |->
               Sub(r["p_bar"], Mul(Mul(Num(3), r["p_std"]), r["mr_bar_std"]))]))} |->
    With([d4 \in {SetCol(d3, "ucl_prime", EachRow(d3, [r \in SeqToSet(d3.rows) |->
               Add(r["p_bar"], Mul(Mul(Num(3), r["p_std"]), r["mr_bar_std"]))]))} |->
    With([d5 \in {SetCol(d4, "sc_weight", EachRow(d4, [r \in SeqToSet(d4.rows) |->
               sc_weight(r["val"], r["lcl"], r["p_bar"], r["ucl"])]))} |->
    With([d6 \in {SetCol(d5, "sc_weight_prime", EachRow(d5, [r \in SeqToSet(d5.rows) |->
               sc_weight(r["val"], r["lcl_prime"], r["p_bar"], r["ucl_prime"])]))} |->
    With([out \in {original_columns \o <<"p_bar", "lcl", "ucl", "sc_weight",
                              "lcl_prime", "ucl_prime", "sc_weight_prime">>} |->
    IF HasCols(d6, out) THEN Returned(Select(d6, out)) ELSE Raised("KeyError")])])])])])])])

\* the final statements: limits, the two weights and the column selection
p_finish(df, original_columns) ==
    IF ~HasCols(df, <<"p_bar", "p_std", "mr_bar_std">>) THEN Raised("KeyError")
    ELSE
    With([d1 \in {SetCol(df, "lcl", EachRow(df, [r \in SeqToSet(df.rows) |-> Sub(r["p_bar"], Mul(Num(3),
            r["p_std"]))]))} |->
    With([d2 \in {SetCol(d1, "ucl", EachRow(d1, [r \in SeqToSet(d1.rows) |-> Add(r["p_bar"], Mul(Num(3),
            r["p_std"]))]))} |->
    With([d3 \in {SetCol(d2, "lcl_prime", EachRow(d2, [r \in SeqToSet(d2.rows) |->
               Sub(r["p_bar"], Mul(Mul(Num(3), r["p_std"]), r["mr_bar_std"]))]))} |->
    With([d4 \in {SetCol(d3, "ucl_prime", EachRow(d3, [r \in SeqToSet(d3.rows) |->
               Add(r["p_bar"], Mul(Mul(Num(3), r["p_std"]), r["mr_bar_std"]))]))} |->
    With([d5 \in {SetCol(d4, "sc_weight", EachRow(d4, [r \in SeqToSet(d4.rows) |->
               sc_weight(r["val"], r["lcl"], r["p_bar"], r["ucl"])]))} |->
    With([d6 \in {SetCol(d5, "sc_weight_prime", EachRow(d5, [r \in SeqToSet(d5.rows) |->
               sc_weight(r["val"], r["lcl_prime"], r["p_bar"], r["ucl_prime"])]))} |->
    With([out \in {original_columns \o <<"p_bar", "lcl", "ucl", "sc_weight",
                              "lcl_prime", "ucl_prime", "sc_weight_prime">>} |->
    IF HasCols(d6, out) THEN Returned(Select(d6, out)) ELSE Raised("KeyError")])])])])])])])

\* p_bar and p_std from the pooled numerator and denominator columns
p_std_cols(df, denominator_val) ==
    With([d1 \in {SetCol(df, "p_bar", EachRow(df, [r \in SeqToSet(df.rows) |-> Div(r["p_bar_numer"],
            r["p_bar_denom"])]))} |->
    SetCol(d1, "p_std", EachRow(d1, [r \in SeqToSet(d1.rows) |->
           Sqrt(Div(Mul(r["p_bar"], Sub(Num(1), r["p_bar"])), r[denominator_val]))]))])

p_zval_col(df) ==
    With([d \in {df} |->
    SetCol(d, "p_zval", EachRow(d, [r \in SeqToSet(d.rows) |-> Div(Sub(r["val"], r["p_bar"]), r["p_std"])]))])

\* the second pass on the whole frame: mr_bar of the moving ranges within
\* ul_mr0, and its division by 1.128
p_single_screen(df, original_columns, sort_val, stable) ==
    With([kept \in {Filter(df, EachRow(df, [r \in SeqToSet(df.rows) |-> Le(r["mr_p_zval"], r["ul_mr0"])]))} |->
    With([d7 \in {SetCol(df, "mr_bar_num", Broadcast(df, SumSkipNa(Col(kept, "mr_p_zval"))))} |->
    With([d8 \in {SetCol(d7, "mr_bar_den", Broadcast(d7, Num(CountNotNa(Col(kept,
            sort_val)))))} |->
    With([d9 \in {SetCol(d8, "mr_bar", EachRow(d8, [r \in SeqToSet(d8.rows) |-> Div(r["mr_bar_num"],
            r["mr_bar_den"])]))} |->
    With([d10 \in {SetCol(d9, "mr_bar_std", EachRow(d9, [r \in SeqToSet(d9.rows) |-> Div(r["mr_bar"],
            SigmaDivisor)]))} |->
    p_finish(sort_values(d10, <<sort_val>>, stable), original_columns)])])])])])

\* multi_strats == False: the screened moving range of the z-values of the
\* whole frame
p_single(df, original_columns, denominator_val, sort_val, stable) ==
    IF ~HasCol(df, sort_val) THEN Raised("KeyError")
    ELSE
    With([d1 \in {p_zval_col(sort_values(df, <<sort_val>>, stable))} |->
    With([d2 \in {SetCol(d1, "mr_p_zval", AbsDiff(Col(d1, "p_zval"), Shift(d1, "p_zval")))} |->
    With([d3 \in {SetCol(d2, "mr_bar0_num", Broadcast(d2, SumSkipNa(Col(d2, "mr_p_zval"))))} |->
    With([d4 \in {SetCol(d3, "mr_bar0_den", Broadcast(d3, Num(CountNotNa(Col(d3,
            denominator_val)))))} |->
    With([d5 \in {SetCol(d4, "mr_bar0", EachRow(d4, [r \in SeqToSet(d4.rows) |->
               Div(r["mr_bar0_num"], Sub(r["mr_bar0_den"], Num(1)))]))} |->
    With([d6 \in {SetCol(d5, "ul_mr0", EachRow(d5, [r \in SeqToSet(d5.rows) |-> Mul(ScreenFactor,
            r["mr_bar0"])]))} |->
    p_single_screen(d6, original_columns, sort_val, stable)])])])])])])

\* the second pass per stratum: mr_bar of the moving ranges within ul_mr0,
\* and its division by 1.128
p_multi_screen(df, original_columns, sort_val, strats) ==
    IF ~HasCols(df, <<"mr_p_zval", "ul_mr0">>) THEN Raised("KeyError")
    ELSE
    With([kept \in {Filter(df, EachRow(df, [r \in SeqToSet(df.rows) |-> Le(r["mr_p_zval"], r["ul_mr0"])]))} |->
    With([h0 \in {GroupAgg(kept, strats, "mr_p_zval", "mr_bar_num", sort_val, "mr_bar_den")} |->
    With([h1 \in {SetCol(h0, "mr_bar", EachRow(h0, [r \in SeqToSet(h0.rows) |-> Div(r["mr_bar_num"],
            r["mr_bar_den"])]))} |->
    With([mr_bar_dat \in {SetCol(h1, "mr_bar_std", EachRow(h1, [r \in SeqToSet(h1.rows) |-> Div(r["mr_bar"],
            SigmaDivisor)]))} |->
    With([d4 \in {merge(df, Select(mr_bar_dat, Append(strats, "mr_bar_std")), strats)} |->
    p_finish(d4, original_columns)])])])])])

\* multi_strats == True: the screened moving range of the z-values per stratum
p_multi(df, original_columns, denominator_val, sort_val, keys, strats) ==
    IF ~HasCols(df, keys) THEN Raised("KeyError")
    ELSE
    With([d1 \in {p_zval_col(sort_values(df, keys, TRUE))} |->
    With([d2 \in {SetCol(d1, "mr_p_zval", AbsDiff(Col(d1, "p_zval"), GroupShift(d1, strats,
            "p_zval")))} |->
    With([g0 \in {GroupAgg(d2, strats, "mr_p_zval", "mr_bar0_num", denominator_val,
            "mr_bar0_den")} |->
    With([g1 \in {SetCol(g0, "mr_bar0", EachRow(g0, [r \in SeqToSet(g0.rows) |->
               Div(r["mr_bar0_num"], Sub(r["mr_bar0_den"], Num(1)))]))} |->
    With([mr_bar0_dat \in {SetCol(g1, "ul_mr0", EachRow(g1, [r \in SeqToSet(g1.rows) |-> Mul(ScreenFactor,
            r["mr_bar0"])]))} |->
    With([d3 \in {merge(d2, Select(mr_bar0_dat, Append(strats, "ul_mr0")), strats)} |->
    p_multi_screen(d3, original_columns, sort_val, strats)])])])])])])

\* variant of the pooling that takes the mean of the ratios of the rows
p_pool_mean(df, numerator_val, denominator_val) ==
    With([d1 \in {SetCol(df, "p_bar_numer", Broadcast(df, SumSkipNa(Col(df, "val"))))} |->
    With([d2 \in {SetCol(d1, "p_bar_denom", Broadcast(d1, Num(NRows(d1))))} |->
    p_std_cols(d2, denominator_val)])])

\* the pooled numerator and denominator of the whole frame
p_pool_single(df, numerator_val, denominator_val) ==
    With([d1 \in {SetCol(df, "p_bar_numer", Broadcast(df, SumSkipNa(Col(df, numerator_val))))} |->
    With([d2 \in {SetCol(d1, "p_bar_denom", Broadcast(d1, SumSkipNa(Col(d1,
            denominator_val))))} |->
    p_std_cols(d2, denominator_val)])])

\* the pooled numerator and denominator of each stratum
p_pool_multi(df, numerator_val, denominator_val, strats) ==
    With([d1 \in {SetCol(df, "p_bar_numer", GroupTransformSum(df, strats, numerator_val))} |->
    With([d2 \in {SetCol(d1, "p_bar_denom", GroupTransformSum(d1, strats, denominator_val))} |->
    p_std_cols(d2, denominator_val)])])

p_chart_limits(dat, numerator_val, denominator_val, sort_val, multi_strats, strats, stable) ==
    With([c \in {frame_copy(dat)} |->
    With([original_columns \in {c.df.cols} |->
    IF ~HasCols(c.df, <<numerator_val, denominator_val>>)
    THEN [ret |-> Raised("KeyError"), dat |-> dat, strats |-> strats, work |-> c.df]
    ELSE
    With([d0 \in {SetCol(c.df, "val",
               EachRow(c.df, [r \in SeqToSet(c.df.rows) |-> Div(r[numerator_val], r[denominator_val])]))} |->
    IF ~multi_strats
    THEN With([d3 \in {p_pool_single(d0, numerator_val, denominator_val)} |->
         [ret |-> p_single(d3, original_columns, denominator_val, sort_val, stable),
          dat |-> IF c.shared THEN d3 ELSE dat, strats |-> strats,
          work |-> d3]])
    ELSE IF strats.kind = "none"
    THEN [ret |-> Raised("TypeError"),
          dat |-> IF c.shared THEN d0 ELSE dat, strats |-> strats,
          work |-> d0]
    ELSE IF strats_rejected(strats)
    THEN [ret |-> ReturnedNone,
          dat |-> IF c.shared THEN d0 ELSE dat, strats |-> strats,
          work |-> d0]
    ELSE IF ~HasCols(d0, strats.items)
    THEN [ret |-> Raised("KeyError"),
          dat |-> IF c.shared THEN d0 ELSE dat, strats |-> strats,
          work |-> d0]
    ELSE With([d3 \in {p_pool_multi(d0, numerator_val, denominator_val, strats.items)},
            k \in {copy_append(strats, sort_val)} |->
         [ret |-> p_multi(d3, original_columns, denominator_val, sort_val, k.keys,
                          k.strats.items),
          dat |-> IF c.shared THEN d3 ELSE dat, strats |-> k.strats,
          work |-> d3]])])])])

\* ---------------------------------------------------------- u_chart_limits
\* the final statements: limits, the two weights and the column selection
u_finish(df, original_columns) ==
    IF ~HasCols(df, <<"u_bar", "u_std", "mr_bar_std">>) THEN Raised("KeyError")
    ELSE
    With([d1 \in {SetCol(df, "lcl", EachRow(df, [r \in SeqToSet(df.rows) |-> Sub(r["u_bar"], Mul(Num(3),
            r["u_std"]))]))} |->
    With([d2 \in {SetCol(d1, "ucl", EachRow(d1, [r \in SeqToSet(d1.rows) |-> Add(r["u_bar"], Mul(Num(3),
            r["u_std"]))]))} |->
    With([d3 \in {SetCol(d2, "lcl_prime", EachRow(d2, [r \in SeqToSet(d2.rows) |->
               Sub(r["u_bar"], Mul(Mul(Num(3), r["u_std"]), r["mr_bar_std"]))]))} |->
    With([d4 \in {SetCol(d3, "ucl_prime", EachRow(d3, [r \in SeqToSet(d3.rows) |->
               Add(r["u_bar"], Mul(Mul(Num(3), r["u_std"]), r["mr_bar_std"]))]))} |->
    With([d5 \in {SetCol(d4, "sc_weight", EachRow(d4, [r \in SeqToSet(d4.rows) |->
               sc_weight(r["val"], r["lcl"], r["u_bar"], r["ucl"])]))} |->
    With([d6 \in {SetCol(d5, "sc_weight_prime", EachRow(d5, [r \in SeqToSet(d5.rows) |->
               sc_weight(r["val"], r["lcl_prime"], r["u_bar"], r["ucl_prime"])]))} |->
    With([out \in {original_columns \o <<"u_bar", "lcl", "ucl", "sc_weight",
                              "lcl_prime", "ucl_prime", "sc_weight_prime">>} |->
    IF HasCols(d6, out) THEN Returned(Select(d6, out)) ELSE Raised("KeyError")])])])])])])])

\* u_bar and u_std from the pooled numerator and denominator columns
u_std_cols(df, denominator_val) ==
    With([d1 \in {SetCol(df, "u_bar", EachRow(df, [r \in SeqToSet(df.rows) |-> Div(r["u_bar_numer"],
            r["u_bar_denom"])]))} |->
    SetCol(d1, "u_std", EachRow(d1, [r \in SeqToSet(d1.rows) |->
           Sqrt(Div(r["u_bar"], r[denominator_val]))]))])

\* variant of the z-value that is not divided by the standard deviation
u_zval_col_raw(df) ==
    With([d \in {df} |->
    SetCol(d, "u_zval", EachRow(d, [r \in SeqToSet(d.rows) |-> Sub(r["val"], r["u_bar"])]))])

u_zval_col(df) ==
    With([d \in {df} |->
    SetCol(d, "u_zval", EachRow(d, [r \in SeqToSet(d.rows) |-> Div(Sub(r["val"], r["u_bar"]), r["u_std"])]))])

\* the second pass on the whole frame: mr_bar of the moving ranges within
\* ul_mr0, and its division by 1.128
u_single_screen(df, original_columns, sort_val, stable) ==
    With([kept \in {Filter(df, EachRow(df, [r \in SeqToSet(df.rows) |-> Le(r["mr_u_zval"], r["ul_mr0"])]))} |->
    With([d7 \in {SetCol(df, "mr_bar_num", Broadcast(df, SumSkipNa(Col(kept, "mr_u_zval"))))} |->
    With([d8 \in {SetCol(d7, "mr_bar_den", Broadcast(d7, Num(CountNotNa(Col(kept,
            sort_val)))))} |->
    With([d9 \in {SetCol(d8, "mr_bar", EachRow(d8, [r \in SeqToSet(d8.rows) |-> Div(r["mr_bar_num"],
            r["mr_bar_den"])]))} |->
    With([d10 \in {SetCol(d9, "mr_bar_std", EachRow(d9, [r \in SeqToSet(d9.rows) |-> Div(r["mr_bar"],
            SigmaDivisor)]))} |->
    u_finish(sort_values(d10, <<sort_val>>, stable), original_columns)])])])])])

\* multi_strats == False: the screened moving range of the z-values of the
\* whole frame
u_single(df, original_columns, denominator_val, sort_val, stable) ==
    IF ~HasCol(df, sort_val) THEN Raised("KeyError")
    ELSE
    With([d1 \in {u_zval_col(sort_values(df, <<sort_val>>, stable))} |->
    With([d2 \in {SetCol(d1, "mr_u_zval", AbsDiff(Col(d1, "u_zval"), Shift(d1, "u_zval")))} |->
    With([d3 \in {SetCol(d2, "mr_bar0_num", Broadcast(d2, SumSkipNa(Col(d2, "mr_u_zval"))))} |->
    With([d4 \in {SetCol(d3, "mr_bar0_den", Broadcast(d3, Num(CountNotNa(Col(d3,
            denominator_val)))))} |->
    With([d5 \in {SetCol(d4, "mr_bar0", EachRow(d4, [r \in SeqToSet(d4.rows) |->
               Div(r["mr_bar0_num"], Sub(r["mr_bar0_den"], Num(1)))]))} |->
    With([d6 \in {SetCol(d5, "ul_mr0", EachRow(d5, [r \in SeqToSet(d5.rows) |-> Mul(ScreenFactor,
            r["mr_bar0"])]))} |->
    u_single_screen(d6, original_columns, sort_val, stable)])])])])])])

\* the second pass per stratum: mr_bar of the moving ranges within ul_mr0,
\* and its division by 1.128
u_multi_screen(df, original_columns, sort_val, strats) ==
    IF ~HasCols(df, <<"mr_u_zval", "ul_mr0">>) THEN Raised("KeyError")
    ELSE
    With([kept \in {Filter(df, EachRow(df, [r \in SeqToSet(df.rows) |-> Le(r["mr_u_zval"], r["ul_mr0"])]))} |->
    With([h0 \in {GroupAgg(kept, strats, "mr_u_zval", "mr_bar_num", sort_val, "mr_bar_den")} |->
    With([h1 \in {SetCol(h0, "mr_bar", EachRow(h0, [r \in SeqToSet(h0.rows) |-> Div(r["mr_bar_num"],
            r["mr_bar_den"])]))} |->
    With([mr_bar_dat \in {SetCol(h1, "mr_bar_std", EachRow(h1, [r \in SeqToSet(h1.rows) |-> Div(r["mr_bar"],
            SigmaDivisor)]))} |->
    With([d4 \in {merge(df, Select(mr_bar_dat, Append(strats, "mr_bar_std")), strats)} |->
    u_finish(d4, original_columns)])])])])])

\* multi_strats == True: the screened moving range of the z-values per stratum
u_multi(df, original_columns, denominator_val, sort_val, keys, strats) ==
    IF ~HasCols(df, keys) THEN Raised("KeyError")
    ELSE
    With([d1 \in {u_zval_col(sort_values(df, keys, TRUE))} |->
    With([d2 \in {SetCol(d1, "mr_u_zval", AbsDiff(Col(d1, "u_zval"), GroupShift(d1, strats,
            "u_zval")))} |->
    With([g0 \in {GroupAgg(d2, strats, "mr_u_zval", "mr_bar0_num", denominator_val,
            "mr_bar0_den")} |->
    With([g1 \in {SetCol(g0, "mr_bar0", EachRow(g0, [r \in SeqToSet(g0.rows) |->
               Div(r["mr_bar0_num"], Sub(r["mr_bar0_den"], Num(1)))]))} |->
    With([mr_bar0_dat \in {SetCol(g1, "ul_mr0", EachRow(g1, [r \in SeqToSet(g1.rows) |-> Mul(ScreenFactor,
            r["mr_bar0"])]))} |->
    With([d3 \in {merge(d2, Select(mr_bar0_dat, Append(strats, "ul_mr0")), strats)} |->
    u_multi_screen(d3, original_columns, sort_val, strats)])])])])])])

\* the pooled numerator and denominator of the whole frame
u_pool_single(df, numerator_val, denominator_val) ==
    With([d1 \in {SetCol(df, "u_bar_numer", Broadcast(df, SumSkipNa(Col(df, numerator_val))))} |->
    With([d2 \in {SetCol(d1, "u_bar_denom", Broadcast(d1, SumSkipNa(Col(d1,
            denominator_val))))} |->
    u_std_cols(d2, denominator_val)])])

\* the pooled numerator and denominator of each stratum
u_pool_multi(df, numerator_val, denominator_val, strats) ==
    With([d1 \in {SetCol(df, "u_bar_numer", GroupTransformSum(df, strats, numerator_val))} |->
    With([d2 \in {SetCol(d1, "u_bar_denom", GroupTransformSum(d1, strats, denominator_val))} |->
    u_std_cols(d2, denominator_val)])])

u_chart_limits(dat, numerator_val, denominator_val, sort_val, chart_type, multi_strats, strats, stable) ==
    With([c \in {frame_copy(dat)} |->
    With([original_columns \in {c.df.cols} |->
    IF ~HasCols(c.df, <<numerator_val, denominator_val>>)
    THEN [ret |-> Raised("KeyError"), dat |-> dat, strats |-> strats, work |-> c.df]
    ELSE
    With([d0 \in {SetCol(c.df, "val",
               EachRow(c.df, [r \in SeqToSet(c.df.rows) |-> Div(r[numerator_val], r[denominator_val])]))} |->
    IF ~multi_strats
    THEN With([d3 \in {u_pool_single(d0, numerator_val, denominator_val)} |->
         [ret |-> u_single(d3, original_columns, denominator_val, sort_val, stable),
          dat |-> IF c.shared THEN d3 ELSE dat, strats |-> strats,
          work |-> d3]])
    ELSE IF strats.kind = "none"
    THEN [ret |-> Raised("TypeError"),
          dat |-> IF c.shared THEN d0 ELSE dat, strats |-> strats,
          work |-> d0]
    ELSE IF strats_rejected(strats)
    THEN [ret |-> ReturnedNone,
          dat |-> IF c.shared THEN d0 ELSE dat, strats |-> strats,
          work |-> d0]
    ELSE IF ~HasCols(d0, strats.items)
    THEN [ret |-> Raised("KeyError"),
          dat |-> IF c.shared THEN d0 ELSE dat, strats |-> strats,
          work |-> d0]
    ELSE With([d3 \in {u_pool_multi(d0, numerator_val, denominator_val, strats.items)},
            k \in {copy_append(strats, sort_val)} |->
         [ret |-> u_multi(d3, original_columns, denominator_val, sort_val, k.keys,
                          k.strats.items),
          dat |-> IF c.shared THEN d3 ELSE dat, strats |-> k.strats,
          work |-> d3]])])])])

\* ----------------------------------------------------------- shewhart_plot
\* The plot works on a copy, adds its three colour columns to it and shows
\* the chart.  Only what decides the outcome and the frames is modelled:
\* the columns read, the chart_type branch and the columns written.
shewhart_plot(chart_type, dat, xval, yval, prime_controls) ==
    With([c \in {frame_copy(dat)},
          focal_sc_weight \in {IF prime_controls THEN "sc_weight_prime" ELSE "sc_weight"},
          focal_lcl \in {IF prime_controls THEN "lcl_prime" ELSE "lcl"},
          focal_ucl \in {IF prime_controls THEN "ucl_prime" ELSE "ucl"} |->
    IF ~HasCols(c.df, <<xval, focal_sc_weight>>)
    THEN [ret |-> Raised("KeyError"), dat |-> dat]
    ELSE
    With([d1 \in {SetCol(c.df, "lower_severity_color",
                  EachRow(c.df, [r \in SeqToSet(c.df.rows) |-> Abs(r[focal_sc_weight])]))} |->
    With([d2 \in {SetCol(d1, "upper_severity_color", Col(d1, focal_sc_weight))} |->
    With([d3 \in {SetCol(d2, "plot_color",
                  EachRow(d2, [r \in SeqToSet(d2.rows) |-> Num(Sign(r[focal_sc_weight]))]))} |->
    With([after \in {IF c.shared THEN d3 ELSE dat} |->
    IF ~HasCols(d3, <<yval, focal_lcl>>)
    THEN [ret |-> Raised("ValueError"), dat |-> after]
    ELSE IF chart_type \notin {"I", "P", "U"}
    THEN [ret |-> Raised("UnboundLocalError"), dat |-> after]
    ELSE IF ~HasCols(d3, <<IF chart_type = "I" THEN "i_bar"
                           ELSE IF chart_type = "P" THEN "p_bar" ELSE "u_bar", focal_ucl>>)
    THEN [ret |-> Raised("ValueError"), dat |-> after]
    ELSE [ret |-> ReturnedNone, dat |-> after]])])])])])

\* ------------------------------------------------------------- the caller
\* The caller holds a source frame with the columns s (stratum), t (order),
\* num and den, and possibly one more column.
BaseCols == <<"s", "t", "num", "den">>

StrataVals == {1, 2}

SortVals == {1, 2}

\* numerator and denominator of an enumerated row: no event among one unit,
\* or one event among two
Cells == {<<0, 1>>, <<1, 2>>}

\* labels of the extra column: one the engine never touches, and labels the
\* engine also uses for its own columns
ExtraCols == {"note", "val", "lcl", "ul_mr"}

ExtraVal == Num(7)

Row(s, t, n, d) ==
    [c \in SeqToSet(BaseCols) |->
       IF c = "s" THEN Num(s) ELSE IF c = "t" THEN Num(t)
       ELSE IF c = "num" THEN Num(n) ELSE Num(d)]

Rows == {Row(s, t, c[1], c[2]) : s \in StrataVals, t \in SortVals, c \in Cells}

Frame(rows) == [cols |-> BaseCols, rows |-> rows]

\* the focal values 10, 12, 11, 50, 9 in order 1..5
Scenario ==
    Frame(<<Row(1, 1, 10, 1), Row(1, 2, 12, 1), Row(1, 3, 11, 1), Row(1, 4, 50, 1),
            Row(1, 5, 9, 1)>>)

\* four equal observations and one that differs
Flat ==
    Frame(<<Row(1, 1, 1, 4), Row(1, 2, 1, 4), Row(1, 3, 1, 4), Row(1, 4, 1, 4),
            Row(1, 5, 3, 4)>>)

\* three strata out of order: two ordinary rows, two rows without events,
\* and a single row
Mixed ==
    Frame(<<Row(1, 2, 1, 2), Row(3, 1, 1, 1), Row(2, 2, 0, 2), Row(1, 1, 0, 1),
            Row(2, 1, 0, 1)>>)

\* three proportions far apart on large denominators: 0, 1/2 and 1
Spread == Frame(<<Row(1, 1, 0, 100), Row(1, 2, 50, 100), Row(1, 3, 100, 100)>>)

\* counts near 100 per unit between a low first and a high last observation
Outliers ==
    Frame(<<Row(1, 1, 29, 1), Row(1, 2, 101, 1), Row(1, 3, 99, 1), Row(1, 4, 101, 1),
            Row(1, 5, 99, 1), Row(1, 6, 101, 1), Row(1, 7, 99, 1), Row(1, 8, 171, 1)>>)

Scenarios == {Scenario, Flat, Mixed, Spread, Outliers}

Frames == {Frame(r) : r \in UNION {[1..n -> Rows] : n \in 1..MaxRows}} \cup Scenarios

\* two rows of the frame have the same ordering value
HasTies(df) ==
    \E i, j \in 1..NRows(df) : i < j /\ df.rows[i]["t"] = df.rows[j]["t"]

WithExtra(df, c) == SetCol(df, c, Broadcast(df, ExtraVal))

\* what a caller may pass as strats; "default" omits the argument
StratsArgs == {List(<<>>), List(<<"s">>), Tuple(<<"s">>), None}

Ops == {"I", "P", "U"}

VARIABLES
    source,            \* the frame as the caller built it
    dat,               \* the caller's frame object
    quicksort_stable,  \* whether the single-key sort of this build keeps ties in order
    defaults,          \* the default strats object of each operation
    pc,                \* "idle", "returned" (a limits call ended), "plotted",
                       \* "misnamed" (a limits call that named a column the
                       \* frame does not have ended)
    call,              \* the arguments of the last limits call
    ret,               \* its outcome
    strats_after,      \* the strats object passed, as the call left it
    plot,              \* the last shewhart_plot call: its arguments, its outcome
                       \* and the frame passed to it as the plot left it
    used               \* the caller has completed an earlier limits call

vars == <<source, dat, quicksort_stable, defaults, pc, call, ret, strats_after, plot, used>>

NoCall == [op |-> "", multi_strats |-> FALSE, strats |-> None, omitted |-> FALSE, absent |-> "none"]

NoPlot == [chart_type |-> "", prime_controls |-> FALSE, ret |-> ReturnedNone, dat |-> EmptyFrame]

Init ==
    /\ source \in Frames \cup {WithExtra(f, c) : f \in Scenarios, c \in ExtraCols}
    /\ dat = source
    /\ quicksort_stable \in (IF HasTies(source) THEN BOOLEAN ELSE {TRUE})
    /\ defaults = [op \in Ops |-> List(<<>>)]
    /\ pc = "idle"
    /\ call = NoCall
    /\ ret = ReturnedNone
    /\ strats_after = None
    /\ plot = NoPlot
    /\ used = FALSE

\* variant: the operations stratify whenever strats is a list that names a
\* column, whatever multi_strats says
LimitsByStrats(op, df, multi_strats, strats, stable) ==
    With([m \in {multi_strats \/ (strats.kind = "list" /\ Len(strats.items) > 0)} |->
    IF op = "I" THEN i_chart_limits(df, "num", "t", m, strats, stable)
    ELSE IF op = "P" THEN p_chart_limits(df, "num", "den", "t", m, strats, stable)
    ELSE u_chart_limits(df, "num", "den", "t", "time series", m, strats, stable)])

\* one limits call of the given operation
Limits(op, df, multi_strats, strats, stable) ==
    IF op = "I" THEN i_chart_limits(df, "num", "t", multi_strats, strats, stable)
    ELSE IF op = "P" THEN p_chart_limits(df, "num", "den", "t", multi_strats, strats, stable)
    ELSE u_chart_limits(df, "num", "den", "t", "time series", multi_strats, strats, stable)

Call(op, multi_strats, strats, omitted) ==
    /\ pc = "idle"
    /\ LET r == Limits(op, dat, multi_strats, strats, quicksort_stable)
       IN /\ ret' = r.ret
          /\ dat' = r.dat
          /\ strats_after' = r.strats
          /\ defaults' = IF omitted THEN [defaults EXCEPT ![op] = r.strats] ELSE defaults
    /\ call' = [op |-> op, multi_strats |-> multi_strats, strats |-> strats,
                omitted |-> omitted, absent |-> "none"]
    /\ pc' = "returned"
    /\ UNCHANGED <<source, quicksort_stable, plot, used>>

\* the caller passes a strats value of its own
CallWith == \E op \in Ops, m \in BOOLEAN, s \in StratsArgs : Call(op, m, s, FALSE)

\* the caller omits strats: the operation's default object is used
CallDefault == \E op \in Ops, m \in BOOLEAN : Call(op, m, defaults[op], TRUE)

\* The arguments that can name a column the frame does not have: the value
\* column (focal_val, numerator_val), denominator_val, sort_val, or a strata
\* column.
Absent == {"value", "denominator", "order", "strata"}

\* the label of a column no frame has
Gone == "gone"

\* one limits call in which the argument `absent` names the missing column
LimitsOn(op, df, absent, multi_strats, strats, stable) ==
    With([value \in {IF absent = "value" THEN Gone ELSE "num"},
          denominator \in {IF absent = "denominator" THEN Gone ELSE "den"},
          order \in {IF absent = "order" THEN Gone ELSE "t"} |->
    IF op = "I" THEN i_chart_limits(df, value, order, multi_strats, strats, stable)
    ELSE IF op = "P" THEN p_chart_limits(df, value, denominator, order, multi_strats, strats, stable)
    ELSE u_chart_limits(df, value, denominator, order, "time series", multi_strats, strats, stable)])

\* The caller names a column the frame does not have, in an argument the call
\* needs: the I chart takes no denominator, and the strata columns are needed
\* only by a stratified call.
CallAbsent ==
    \E op \in Ops, m \in BOOLEAN, a \in Absent, s \in StratsArgs \cup {List(<<Gone>>)} :
        /\ pc = "idle"
        /\ a = "denominator" => op # "I"
        /\ a = "strata" <=> s = List(<<Gone>>)
        /\ a = "strata" => m
        /\ LET r == LimitsOn(op, dat, a, m, s, quicksort_stable)
           IN /\ ret' = r.ret
              /\ dat' = r.dat
              /\ strats_after' = r.strats
        /\ call' = [op |-> op, multi_strats |-> m, strats |-> s, omitted |-> FALSE,
                    absent |-> a]
        /\ pc' = "misnamed"
        /\ UNCHANGED <<source, quicksort_stable, defaults, plot, used>>

\* the caller plots the frame a limits call returned
Plot ==
    /\ pc = "returned"
    /\ ret.kind = "table"
    /\ \E prime_controls \in BOOLEAN :
          LET r == shewhart_plot(call.op, ret.df, "t", "num", prime_controls)
          IN plot' = [chart_type |-> call.op, prime_controls |-> prime_controls,
                      ret |-> r.ret, dat |-> r.dat]
    /\ pc' = "plotted"
    /\ UNCHANGED <<source, dat, quicksort_stable, defaults, call, ret, strats_after, used>>

\* the caller drops the outcome and is ready for the next call
Discard ==
    /\ pc \in {"returned", "plotted", "misnamed"}
    /\ pc' = "idle"
    /\ call' = NoCall
    /\ ret' = ReturnedNone
    /\ strats_after' = None
    /\ plot' = NoPlot
    /\ used' = TRUE
    /\ UNCHANGED <<source, dat, quicksort_stable, defaults>>

Next == CallWith \/ CallDefault \/ CallAbsent \/ Plot \/ Discard

Spec == Init /\ [][Next]_vars

\* ---------------------------------------------------------------- claims
\* A row of the source is known by its values in the base columns.
Project(row) == [c \in SeqToSet(BaseCols) |-> row[c]]

Count(rows, r) == Cardinality({i \in 1..Len(rows) : Project(rows[i]) = r})

\* out holds each row of inp as often as inp does, and nothing else
SameRows(out, inp) ==
    /\ Len(out) = Len(inp)
    /\ \A i \in 1..Len(inp) : Count(out, Project(inp[i])) = Count(inp, Project(inp[i]))

\* the column of the center line of each operation
BarCol(op) == IF op = "I" THEN "i_bar" ELSE IF op = "P" THEN "p_bar" ELSE "u_bar"

\* the value the limits of a row are compared with
ValOf(op, row) == IF op = "I" THEN row["num"] ELSE Div(row["num"], row["den"])

\* ----- C1
C1_Case == pc = "returned" /\ source = Scenario /\ call.op = "I" /\ ~call.multi_strats

C1_Ordered == i_single_mr0(SetCol(source, "val", Col(source, "num")), "t", quicksort_stable)

C1_Screen == i_single_screen(C1_Ordered)

\* C1 as the code has it: i_chart_limits without stratification on the
\* focal values 10, 12, 11, 50, 9 in order 1..5 has the moving ranges
\* 2, 1, 39, 41, the initial estimate 20.75 and the threshold 67.8525; no
\* moving range exceeds the threshold, so the screen retains all four and
\* the screened estimate is 20.75; i_bar is 18.4, lcl is -36.795, ucl is
\* 73.595 and sc_weight is 0 on every row.
C1_ScenarioLimits ==
    C1_Case =>
       /\ Col(C1_Ordered, "mr0") = <<NaN, Num(2), Num(1), Num(39), Num(41)>>
       /\ C1_Screen.mr0_bar = Frac(83, 4)
       /\ C1_Screen.ul_mr = Frac(678525, 10000)
       /\ Col(C1_Screen.dat2, "mr0") = <<Num(2), Num(1), Num(39), Num(41)>>
       /\ C1_Screen.mr_bar = Frac(83, 4)
       /\ ret.kind = "table"
       /\ Col(ret.df, "num") = <<Num(10), Num(12), Num(11), Num(50), Num(9)>>
       /\ \A i \in 1..NRows(ret.df) :
             /\ ret.df.rows[i]["i_bar"] = Frac(92, 5)
             /\ ret.df.rows[i]["lcl"] = Frac(-36795, 1000)
             /\ ret.df.rows[i]["ucl"] = Frac(73595, 1000)
             /\ ret.df.rows[i]["sc_weight"] = Num(0)

\* C1, the state it speaks of: the call on the five focal values returned a table
C1_ScenarioReturned == C1_Case /\ ret.kind = "table" /\ NRows(ret.df) = 5

\* C1 as stated: the screen retains only the moving ranges 2 and 1, the
\* screened estimate is 1.5, the center is 18.4, lcl is 14.41, ucl is 22.39,
\* and sc_weight is positive for the value 50, negative for the value 9 and
\* 0 for the first three rows.
C1_AsStated ==
    C1_Case =>
       /\ Col(C1_Ordered, "mr0") = <<NaN, Num(2), Num(1), Num(39), Num(41)>>
       /\ C1_Screen.mr0_bar = Frac(83, 4)
       /\ Col(C1_Screen.dat2, "mr0") = <<Num(2), Num(1)>>
       /\ C1_Screen.mr_bar = Frac(3, 2)
       /\ ret.kind = "table"
       /\ \A i \in 1..NRows(ret.df) :
             /\ ret.df.rows[i]["i_bar"] = Frac(92, 5)
             /\ ret.df.rows[i]["lcl"] = Frac(1441, 100)
             /\ ret.df.rows[i]["ucl"] = Frac(2239, 100)
             /\ ret.df.rows[i]["num"] = Num(50) => Gt(ret.df.rows[i]["sc_weight"], Num(0))
             /\ ret.df.rows[i]["num"] = Num(9) => Lt(ret.df.rows[i]["sc_weight"], Num(0))
             /\ ret.df.rows[i]["num"] \in {Num(10), Num(12), Num(11)} =>
                   ret.df.rows[i]["sc_weight"] = Num(0)

\* ----- C2
\* C2: the table i_chart_limits returns, stratified or not, holds every row
\* of the input exactly once, also when a stratum has a single row.
C2_EveryRowOnce ==
    (pc = "returned" /\ call.op = "I" /\ ret.kind = "table") =>
       SameRows(ret.df.rows, source.rows)

\* ----- C3
\* C3: the table p_chart_limits or u_chart_limits returns in stratified mode
\* holds every row of the input exactly once, also for a stratum of a single
\* row and for a stratum whose pooled center is 0.
C3_EveryRowOnce ==
    (pc = "returned" /\ call.op \in {"P", "U"} /\ call.multi_strats /\ ret.kind = "table") =>
       SameRows(ret.df.rows, source.rows)

\* ----- C4
\* a group of the call has fewer than two rows
C4_SmallGroup ==
    \/ ~call.multi_strats /\ NRows(source) < 2
    \/ /\ call.multi_strats
       /\ call.strats = List(<<"s">>)
       /\ \E i \in 1..NRows(source) :
             Cardinality({j \in 1..NRows(source) :
                            source.rows[j]["s"] = source.rows[i]["s"]}) < 2

\* C4: a call on a table with a group of fewer than two rows fails with a
\* DivisionError.
C4_SmallGroupFails ==
    (pc = "returned" /\ C4_SmallGroup) => ret = Raised("DivisionError")

\* ----- C5
\* the center of the row equals one of its limits and the value lies beyond it
C5_Degenerate(row, val, lcl, bar, ucl) ==
    \/ row[lcl] = row[bar] /\ Lt(val, row[lcl])
    \/ row[ucl] = row[bar] /\ Gt(val, row[ucl])

\* C5: scoring a row whose center equals its lcl or ucl while its value
\* lies outside that bound fails with a DivisionError, so no returned table
\* holds such a row.
C5_DegenerateScoringFails ==
    (pc = "returned" /\ ret.kind = "table") =>
       \A i \in 1..NRows(ret.df) :
          /\ ~C5_Degenerate(ret.df.rows[i], ValOf(call.op, ret.df.rows[i]),
                            "lcl", BarCol(call.op), "ucl")
          /\ call.op \in {"P", "U"} =>
                ~C5_Degenerate(ret.df.rows[i], ValOf(call.op, ret.df.rows[i]),
                               "lcl_prime", BarCol(call.op), "ucl_prime")

\* ----- C6
\* stratification is requested with an empty list or with a value that is
\* no list
C6_Case ==
    /\ pc = "returned"
    /\ call.multi_strats
    /\ (call.strats.kind # "list" \/ Len(call.strats.items) = 0)

Added(op) ==
    {BarCol(op), "lcl", "ucl", "sc_weight"}
       \cup (IF op = "I" THEN {} ELSE {"lcl_prime", "ucl_prime", "sc_weight_prime"})

\* C7 as the code has it: the columns of a returned table are the columns
\* of the input plus i_bar (I), p_bar (P) or u_bar (U) and lcl, ucl,
\* sc_weight, and for P and U also lcl_prime, ucl_prime, sc_weight_prime; no
\* other column of the engine is among them.
C7_OutputColumns ==
    (pc = "returned" /\ ret.kind = "table") =>
       /\ SeqToSet(ret.df.cols) = SeqToSet(source.cols) \cup Added(call.op)
       /\ \A i \in 1..NRows(ret.df) : DOMAIN ret.df.rows[i] = SeqToSet(ret.df.cols)

\* C7, the state it speaks of: a stratified P call has returned a table with rows
C7_StratifiedTable ==
    /\ pc = "returned"
    /\ call.op = "P"
    /\ call.multi_strats
    /\ ret.kind = "table"
    /\ NRows(ret.df) > 0

\* C7 as stated: the center line is in a column named center.
C7_AsStated ==
    (pc = "returned" /\ ret.kind = "table") =>
       SeqToSet(ret.df.cols) =
          SeqToSet(source.cols) \cup ((Added(call.op) \ {BarCol(call.op)}) \cup {"center"})

\* ----- C8
\* C8: every row of a returned table carries, in every column of the input,
\* the values of a row of the input, whatever the name of the column.
C8_InputColumnsUnchanged ==
    (pc = "returned" /\ ret.kind = "table") =>
       \A i \in 1..NRows(ret.df) :
          \E j \in 1..NRows(source) :
             \A c \in SeqToSet(source.cols) : ret.df.rows[i][c] = source.rows[j][c]

\* ----- C9
\* C9: whatever calls were made and however they ended, the caller's frame
\* is as the caller built it, the strats object passed to the last call is
\* as it was passed, and the frame passed to shewhart_plot is as it was
\* passed.
C9_InputsUntouched ==
    /\ dat = source
    /\ pc # "idle" => strats_after = call.strats
    /\ pc = "plotted" => plot.dat = ret.df

\* C9, the state it speaks of: after an earlier call, a stratified call was
\* given a strats list and returned a table, which was then plotted
C9_StratifiedThenPlotted ==
    /\ used
    /\ pc = "plotted"
    /\ call.multi_strats
    /\ call.strats = List(<<"s">>)
    /\ NRows(ret.df) > 0
    /\ plot.ret = ReturnedNone

\* ----- C10
\* C10: every call returns what the same call returns on the source frame
\* when it is the only call made, with the default strats as defined when
\* the argument is omitted.
C10_Stateless ==
    pc = "returned" =>
       ret = Limits(call.op, source, call.multi_strats,
                    IF call.omitted THEN List(<<>>) ELSE call.strats, quicksort_stable).ret

\* C10, the state it speaks of: after an earlier call, a call that omitted
\* strats has returned a table
C10_LaterDefaultCall ==
    /\ used
    /\ pc = "returned"
    /\ call.omitted
    /\ ret.kind = "table"
    /\ NRows(ret.df) > 0

\* ----- C11
\* the rows as their values in the base columns, in order
ProjSeq(rows) == [i \in 1..Len(rows) |-> Project(rows[i])]

\* the rows of the source in ascending order of the sort keys of the call,
\* rows with equal keys in their original order
C11_StableRows ==
    SortRows(source.rows, IF call.multi_strats THEN <<"s", "t">> ELSE <<"t">>, TRUE)

\* the strata that have rows in the returned table
C11_Present == {ret.df.rows[i]["s"] : i \in 1..NRows(ret.df)}

\* C11: the rows of a returned table are in ascending order of the ordering
\* column within each group, rows of a group with equal ordering values in
\* their original order, in the unstratified and in the stratified path, and
\* the table is the one this order of the rows determines.
C11_TiesKeepOrder ==
    (pc = "returned" /\ ret.kind = "table") =>
       /\ ProjSeq(ret.df.rows) =
             ProjSeq(IF call.multi_strats
                     THEN FilterSeq(C11_StableRows,
                             [i \in 1..Len(C11_StableRows) |->
                                C11_StableRows[i]["s"] \in C11_Present])
                     ELSE C11_StableRows)
       /\ ret = Limits(call.op, source, call.multi_strats, call.strats, TRUE).ret

\* ----- C12
\* the rows of the source that belong to stratum k
C12_Stratum(k) ==
    Filter(source, [i \in 1..NRows(source) |-> KeyOf(source.rows[i], <<"s">>) = k])

\* unstratified i_chart_limits run on each stratum of the source by itself,
\* the returned tables one after the other in the order of the stratum keys
C12_Separately ==
    Flatten([g \in 1..Len(GroupKeys(source, <<"s">>)) |->
               i_chart_limits(C12_Stratum(GroupKeys(source, <<"s">>)[g]), "num", "t", FALSE,
                              List(<<>>), quicksort_stable).ret.df.rows])

\* C12: the table stratified i_chart_limits returns is the concatenation, in
\* the order of the stratum keys, of the tables unstratified i_chart_limits
\* returns for each stratum run by itself.
C12_GroupingIndependence ==
    (pc = "returned" /\ call.op = "I" /\ call.multi_strats /\ call.strats = List(<<"s">>)) =>
       /\ ret.kind = "table"
       /\ ret.df.rows = C12_Separately

\* ----- C13
\* the frame of the call with its val column
C13_Val ==
    SetCol(source, "val",
           IF call.op = "I" THEN Col(source, "num")
           ELSE EachRow(source, [r \in SeqToSet(source.rows) |-> Div(r["num"], r["den"])]))

\* The working columns of the call, kept by naming them as the columns to
\* return: without strata the two estimates themselves, with strata the
\* threshold (3.27 times the initial estimate) and the screened estimate
\* (for P and U divided by 1.128).
C13_Working ==
    IF call.op = "I"
    THEN i_multi(C13_Val, <<"s", "ul_mr", "mr_bar">>, "num", "t", <<"s", "t">>, <<"s">>)
    ELSE IF call.op = "P"
    THEN IF call.multi_strats
         THEN p_multi(p_pool_multi(C13_Val, "num", "den", <<"s">>),
                      <<"s", "ul_mr0", "mr_bar_std">>, "den", "t", <<"s", "t">>, <<"s">>)
         ELSE p_single(p_pool_single(C13_Val, "num", "den"),
                       <<"mr_bar0", "mr_bar">>, "den", "t", quicksort_stable)
    ELSE IF call.multi_strats
         THEN u_multi(u_pool_multi(C13_Val, "num", "den", <<"s">>),
                      <<"s", "ul_mr0", "mr_bar_std">>, "den", "t", <<"s", "t">>, <<"s">>)
         ELSE u_single(u_pool_single(C13_Val, "num", "den"),
                       <<"mr_bar0", "mr_bar">>, "den", "t", quicksort_stable)

\* the initial and the screened estimate of the group of each row
C13_Estimates ==
    IF call.op = "I" /\ ~call.multi_strats
    THEN <<[initial |-> i_single_screen(i_single_mr0(C13_Val, "t", quicksort_stable)).mr0_bar,
            screened |-> i_single_screen(i_single_mr0(C13_Val, "t", quicksort_stable)).mr_bar]>>
    ELSE [i \in 1..NRows(C13_Working.df) |->
            IF ~call.multi_strats
            THEN [initial |-> C13_Working.df.rows[i]["mr_bar0"],
                  screened |-> C13_Working.df.rows[i]["mr_bar"]]
            ELSE IF call.op = "I"
            THEN [initial |-> Div(C13_Working.df.rows[i]["ul_mr"], ScreenFactor),
                  screened |-> C13_Working.df.rows[i]["mr_bar"]]
            ELSE [initial |-> Div(C13_Working.df.rows[i]["ul_mr0"], ScreenFactor),
                  screened |-> Mul(C13_Working.df.rows[i]["mr_bar_std"], SigmaDivisor)]]

\* the call is one whose groups the estimates are taken for: a table came
\* back, and the whole table as one group has at least two rows (a stratum
\* of one row has no row in the table)
C13_Case ==
    /\ pc = "returned"
    /\ ret.kind = "table"
    /\ call.multi_strats => call.strats = List(<<"s">>)
    /\ ~call.multi_strats => NRows(source) >= 2

\* C13: in every group of at least two rows, in all three models, the
\* screened estimate is less than or equal to the initial estimate.
C13_ScreenedNotAbove ==
    C13_Case =>
       \A i \in 1..Len(C13_Estimates) :
          Le(C13_Estimates[i].screened, C13_Estimates[i].initial)

\* ----- C14
\* the weight w has the sign of the position of val against the limits
C14_Signed(val, lcl, ucl, w) ==
    /\ Lt(val, lcl) => Lt(w, Num(0))
    /\ Gt(val, ucl) => Gt(w, Num(0))
    /\ (Le(lcl, val) /\ Le(val, ucl)) => w = Num(0)

\* C14: in every row of a returned table, of every model, sc_weight is
\* negative when the value is below lcl, positive when it is above ucl and 0
\* when it lies within the limits or on one of them; likewise
\* sc_weight_prime against lcl_prime and ucl_prime.
C14_SignOfWeight ==
    (pc = "returned" /\ ret.kind = "table") =>
       \A i \in 1..NRows(ret.df) :
          /\ C14_Signed(ValOf(call.op, ret.df.rows[i]), ret.df.rows[i]["lcl"],
                        ret.df.rows[i]["ucl"], ret.df.rows[i]["sc_weight"])
          /\ call.op \in {"P", "U"} =>
                C14_Signed(ValOf(call.op, ret.df.rows[i]), ret.df.rows[i]["lcl_prime"],
                           ret.df.rows[i]["ucl_prime"], ret.df.rows[i]["sc_weight_prime"])

\* C14, the state it speaks of: a P call has returned a table with a row
\* below lcl and a row above ucl, both with a finite weight, and a row within
\* the limits
C14_BelowWithinAbove ==
    /\ pc = "returned"
    /\ call.op = "P"
    /\ ret.kind = "table"
    /\ \E i, j, k \in 1..NRows(ret.df) :
          /\ Lt(ValOf("P", ret.df.rows[i]), ret.df.rows[i]["lcl"])
          /\ IsFinite(ret.df.rows[i]["sc_weight"])
          /\ Gt(ValOf("P", ret.df.rows[j]), ret.df.rows[j]["ucl"])
          /\ IsFinite(ret.df.rows[j]["sc_weight"])
          /\ Le(ret.df.rows[k]["lcl"], ValOf("P", ret.df.rows[k]))
          /\ Le(ValOf("P", ret.df.rows[k]), ret.df.rows[k]["ucl"])

\* ----- C15
\* the rows are a group of at least two rows whose focal values are all the same
C15_Constant(rows) ==
    /\ Len(rows) >= 2
    /\ \A i, j \in 1..Len(rows) : rows[i]["num"] = rows[j]["num"]

\* the rows of a frame that belong to the group k: the whole frame when
\* the call has no strata, else the rows of stratum k
C15_Group(df, k) ==
    IF call.multi_strats
    THEN FilterSeq(df.rows, [i \in 1..NRows(df) |-> KeyOf(df.rows[i], <<"s">>) = k])
    ELSE df.rows

\* the group keys of the call
C15_Keys == IF call.multi_strats THEN SeqToSet(GroupKeys(source, <<"s">>)) ELSE {<<>>}

\* an I call has returned a table
C15_Case ==
    /\ pc = "returned"
    /\ call.op = "I"
    /\ ret.kind = "table"
    /\ call.multi_strats => call.strats = List(<<"s">>)

C16_GroupOf(row) ==
    Filter(source, [i \in 1..NRows(source) |->
                      call.multi_strats => source.rows[i]["s"] = row["s"]])

\* sum of the numerators of the group divided by the sum of its denominators
C16_Pooled(row) ==
    Div(SumSkipNa(Col(C16_GroupOf(row), "num")), SumSkipNa(Col(C16_GroupOf(row), "den")))

\* mean of the ratios of the rows of the group
C16_MeanOfRatios(row) ==
    Div(SumSkipNa(EachRow(C16_GroupOf(row),
                          [r \in SeqToSet(C16_GroupOf(row).rows) |-> Div(r["num"], r["den"])])),
        Num(NRows(C16_GroupOf(row))))

\* a P or U call has returned a table
C16_Case ==
    /\ pc = "returned"
    /\ call.op \in {"P", "U"}
    /\ ret.kind = "table"
    /\ call.multi_strats => call.strats = List(<<"s">>)

\* C16: in every row of a table p_chart_limits or u_chart_limits returns,
\* p_bar (u_bar) is the sum of the numerators of the row's group divided by
\* the sum of its denominators, the group being the whole table when the
\* call has no strata; all rows of a group so have the same center.
C16_PooledCenter ==
    C16_Case =>
       \A i \in 1..NRows(ret.df) :
          ret.df.rows[i][BarCol(call.op)] = C16_Pooled(ret.df.rows[i])

\* C16, the state it speaks of: a P call has returned a table with a row
\* whose pooled center differs from the mean of the ratios of its group
C16_PooledIsNotMean ==
    /\ C16_Case
    /\ call.op = "P"
    /\ \E i \in 1..NRows(ret.df) :
          C16_Pooled(ret.df.rows[i]) # C16_MeanOfRatios(ret.df.rows[i])

\* ----- C17
\* The two-pass screen as the specification words it, on the focal values of
\* one group in their order: the moving ranges, the initial estimate, the
\* threshold, the moving ranges retained and the screened estimate.
MovingRanges(vals) == [i \in 1..(Len(vals) - 1) |-> Abs(Sub(vals[i + 1], vals[i]))]

InitialEstimate(vals) == Div(SumSkipNa(MovingRanges(vals)), Num(Len(vals) - 1))

Threshold(vals) == Mul(Frac(327, 100), InitialEstimate(vals))

Retained(vals) ==
    FilterSeq(MovingRanges(vals),
              [i \in 1..(Len(vals) - 1) |-> ~Gt(MovingRanges(vals)[i], Threshold(vals))])

ScreenedEstimate(vals) == Div(SumSkipNa(Retained(vals)), Num(Len(Retained(vals))))

\* the rows of the returned table in the group of row, in the order of the table
C17_GroupOf(row) ==
    Filter(ret.df, [i \in 1..NRows(ret.df) |->
                      call.multi_strats => ret.df.rows[i]["s"] = row["s"]])

\* C17: in every row of a table i_chart_limits returns, i_bar is the sum of
\* the focal values of the row's group divided by the number of its rows,
\* and lcl and ucl are i_bar minus and plus 2.66 times the screened estimate
\* of the group; the three are the same on all rows of a group.
C17_GroupLimits ==
    C15_Case =>
       \A i \in 1..NRows(ret.df) :
          /\ ret.df.rows[i]["i_bar"] =
                Div(SumSkipNa(Col(C17_GroupOf(ret.df.rows[i]), "num")),
                    Num(NRows(C17_GroupOf(ret.df.rows[i]))))
          /\ ret.df.rows[i]["lcl"] =
                Sub(ret.df.rows[i]["i_bar"],
                    Mul(Frac(266, 100),
                        ScreenedEstimate(Col(C17_GroupOf(ret.df.rows[i]), "num"))))
          /\ ret.df.rows[i]["ucl"] =
                Add(ret.df.rows[i]["i_bar"],
                    Mul(Frac(266, 100),
                        ScreenedEstimate(Col(C17_GroupOf(ret.df.rows[i]), "num"))))

\* C17, the state it speaks of: a stratified I call has returned a table
\* with two strata of different limits, one of them of nonzero width
C17_TwoStrataLimits ==
    /\ C15_Case
    /\ call.multi_strats
    /\ \E i, j \in 1..NRows(ret.df) :
          /\ ret.df.rows[i]["s"] # ret.df.rows[j]["s"]
          /\ ret.df.rows[i]["lcl"] # ret.df.rows[j]["lcl"]
          /\ Lt(ret.df.rows[i]["lcl"], ret.df.rows[i]["i_bar"])
          /\ Lt(ret.df.rows[i]["i_bar"], ret.df.rows[i]["ucl"])

\* ----- C18
\* the last call's own frame as the statements before the sort left it, or
\* as it was when the call ended if it ended before the sort
C18_Work == LimitsOn(call.op, source, call.absent, call.multi_strats, call.strats, quicksort_stable).work

\* the last call had one of the two faults: a stratified call was given a
\* strats value that is empty or is not a list, or an argument the call needs
\* named a column the frame does not have
C18_Fault == (pc = "returned" /\ C6_Case) \/ pc = "misnamed"

\* C18: a call with an invalid strata specification or an absent required
\* column, whichever of the two faults it has, ends without a table and
\* before any computation step has run: its own frame has the caller's
\* columns and values and no computed column, the value column included.
C18_FailFast ==
    C18_Fault => /\ ret.kind # "table"
                 /\ C18_Work = source

\* C18, the part that holds: a call with either fault returns no table
C18_NoTable == C18_Fault => ret.kind # "table"

\* C18, the part that holds: only a call whose value column (for P and U its
\* numerator or denominator column) is absent ends before the value column
\* is computed
C18_OnlyValueColumnFirst ==
    C18_Fault => (C18_Work = source <=> call.absent \in {"value", "denominator"})

\* ----- C19
\* the last call was unstratified
C19_Case == pc = "returned" /\ ~call.multi_strats

\* C19: an unstratified call does not use strats: whatever was passed (a
\* list naming a column of the frame or a column it does not have, an empty
\* list, a tuple, None), the outcome is that of the same call with an empty
\* list, and the strats object is left as it was passed.
C19_StratsUnused ==
    C19_Case =>
       /\ ret = Limits(call.op, source, FALSE, List(<<>>), quicksort_stable).ret
       /\ ret = Limits(call.op, source, FALSE, List(<<Gone>>), quicksort_stable).ret
       /\ strats_after = call.strats

\* C19, the state it speaks of: an unstratified call was given a list naming
\* the strata column of a frame with two strata, and returned a table
\* that the stratified call on the same frame does not return
C19_StrataNamedButUnused ==
    /\ C19_Case
    /\ call.strats = List(<<"s">>)
    /\ \E i, j \in 1..NRows(source) : source.rows[i]["s"] # source.rows[j]["s"]
    /\ ret.kind = "table"
    /\ ret # Limits(call.op, source, TRUE, call.strats, quicksort_stable).ret

\* ----- C20
\* the two passes of the unstratified I call, as the call computed them
C20_Single == i_single_screen(i_single_mr0(C13_Val, "t", quicksort_stable))

\* the threshold and the screened estimate of each row of the stratified I
\* call, kept by naming them as the columns to return
C20_Multi == i_multi(C13_Val, <<"s", "ul_mr", "mr_bar">>, "num", "t", <<"s", "t">>, <<"s">>).df

\* the focal values of the group of row i of the returned table, in the
\* order of the table
C20_Vals(i) == Col(C17_GroupOf(ret.df.rows[i]), "num")

\* C20: in the I model the screen of each group is the two passes over its
\* n - 1 moving ranges: the initial estimate is their sum divided by n - 1,
\* the threshold is 3.27 times the initial estimate, the retained moving
\* ranges are those that do not exceed the threshold (one equal to it is
\* retained), and the screened estimate is the sum of the retained moving
\* ranges divided by their number.
C20_TwoPassScreen ==
    C15_Case =>
       IF call.multi_strats
       THEN /\ NRows(C20_Multi) = NRows(ret.df)
            /\ \A i \in 1..NRows(ret.df) :
                  /\ C20_Multi.rows[i]["ul_mr"] = Threshold(C20_Vals(i))
                  /\ C20_Multi.rows[i]["mr_bar"] = ScreenedEstimate(C20_Vals(i))
       ELSE /\ C20_Single.mr0_bar = InitialEstimate(Col(ret.df, "num"))
            /\ C20_Single.ul_mr = Threshold(Col(ret.df, "num"))
            /\ Col(C20_Single.dat2, "mr0") = Retained(Col(ret.df, "num"))
            /\ C20_Single.mr_bar = ScreenedEstimate(Col(ret.df, "num"))

\* C20, the state it speaks of: an unstratified I call whose screen
\* discarded a moving range and retained the others, so that the screened
\* estimate is below the initial one
C20_OneDiscarded ==
    /\ C15_Case
    /\ ~call.multi_strats
    /\ NRows(C20_Single.dat2) = NRows(source) - 2
    /\ Lt(C20_Single.mr_bar, C20_Single.mr0_bar)

\* C20, the boundary: a moving range equal to the threshold was retained
C20_EqualRetained ==
    /\ C15_Case
    /\ ~call.multi_strats
    /\ \E i \in 1..NRows(C20_Single.dat2) :
          C20_Single.dat2.rows[i]["mr0"] = C20_Single.ul_mr

\* ----- C21
\* the last call was a P or U call that returned a table
C21_Case ==
    /\ pc = "returned"
    /\ call.op \in {"P", "U"}
    /\ ret.kind = "table"
    /\ call.multi_strats => call.strats = List(<<"s">>)

\* the column of the center and the column of the z-values of the model
C21_Bar == IF call.op = "P" THEN "p_bar" ELSE "u_bar"

C21_ZCol == IF call.op = "P" THEN "p_zval" ELSE "u_zval"

\* The rows of the call with the z-value and the multiplier of each, kept
\* by naming the two working columns as columns to return.
C21_Working ==
    IF call.op = "P"
    THEN IF call.multi_strats
         THEN p_multi(p_pool_multi(C13_Val, "num", "den", <<"s">>),
                      <<"s", "t", "p_zval", "mr_bar_std">>, "den", "t", <<"s", "t">>, <<"s">>).df
         ELSE p_single(p_pool_single(C13_Val, "num", "den"),
                       <<"s", "t", "p_zval", "mr_bar_std">>, "den", "t", quicksort_stable).df
    ELSE IF call.multi_strats
         THEN u_multi(u_pool_multi(C13_Val, "num", "den", <<"s">>),
                      <<"s", "t", "u_zval", "mr_bar_std">>, "den", "t", <<"s", "t">>, <<"s">>).df
         ELSE u_single(u_pool_single(C13_Val, "num", "den"),
                       <<"s", "t", "u_zval", "mr_bar_std">>, "den", "t", quicksort_stable).df

\* The rows of the call as its sort put them, with the z-value of each: the
\* order in which the call takes the moving ranges.
C21_Sorted ==
    IF call.op = "P"
    THEN IF call.multi_strats
         THEN p_zval_col(sort_values(p_pool_multi(C13_Val, "num", "den", <<"s">>), <<"s", "t">>, TRUE))
         ELSE p_zval_col(sort_values(p_pool_single(C13_Val, "num", "den"), <<"t">>, quicksort_stable))
    ELSE IF call.multi_strats
         THEN u_zval_col(sort_values(u_pool_multi(C13_Val, "num", "den", <<"s">>), <<"s", "t">>, TRUE))
         ELSE u_zval_col(sort_values(u_pool_single(C13_Val, "num", "den"), <<"t">>, quicksort_stable))

\* the z-values of the group of the row, in the order of the frame
C21_Z(sorted, row) ==
    Col(Filter(sorted, [j \in 1..NRows(sorted) |->
                  call.multi_strats => sorted.rows[j]["s"] = row["s"]]),
        C21_ZCol)

\* the multiplier of a group from its z-values: their screened estimate
\* divided by 1.128
C21_M(z) == Div(ScreenedEstimate(z), Frac(1128, 1000))

\* the z-values are all defined
C21_Defined(z) == \A k \in 1..Len(z) : IsFinite(z[k])

\* the row has the multiplier m, and its prime limits are its standard
\* limits rescaled about the center by m
C21_Rescaled(row, working, m) ==
    /\ working["mr_bar_std"] = m
    /\ Sub(row["ucl_prime"], row[C21_Bar]) = Mul(m, Sub(row["ucl"], row[C21_Bar]))
    /\ Sub(row[C21_Bar], row["lcl_prime"]) = Mul(m, Sub(row[C21_Bar], row["lcl"]))

C22_Renamed(df, a, b) ==
    [cols |-> [k \in 1..Len(df.cols) |-> IF df.cols[k] = a THEN b ELSE df.cols[k]],
     rows |-> [i \in 1..NRows(df) |->
                 [c \in (SeqToSet(df.cols) \ {a}) \cup {b} |->
                    IF c = b THEN df.rows[i][a] ELSE df.rows[i][c]]]]

\* the frame of the last call with its center and its standard deviation of
\* each row, as the call computed them
C22_Pooled ==
    IF call.op = "P"
    THEN IF call.multi_strats THEN p_pool_multi(C13_Val, "num", "den", <<"s">>)
         ELSE p_pool_single(C13_Val, "num", "den")
    ELSE IF call.multi_strats THEN u_pool_multi(C13_Val, "num", "den", <<"s">>)
         ELSE u_pool_single(C13_Val, "num", "den")

\* the same frame with the center and the standard deviation under the
\* labels of the other operation
C22_Given ==
    With([own \in {C22_Pooled} |->
    IF call.op = "P"
    THEN SetCol(SetCol(own, "u_bar", Col(own, "p_bar")), "u_std", Col(own, "p_std"))
    ELSE SetCol(SetCol(own, "p_bar", Col(own, "u_bar")), "p_std", Col(own, "u_std"))])

\* what the other operation makes of that frame from its sort onwards
C22_Other ==
    IF call.op = "P"
    THEN IF call.multi_strats
         THEN u_multi(C22_Given, source.cols, "den", "t", <<"s", "t">>, <<"s">>)
         ELSE u_single(C22_Given, source.cols, "den", "t", quicksort_stable)
    ELSE IF call.multi_strats
         THEN p_multi(C22_Given, source.cols, "den", "t", <<"s", "t">>, <<"s">>)
         ELSE p_single(C22_Given, source.cols, "den", "t", quicksort_stable)

\* values of chart_type a caller may pass
C22_ChartTypes == {"time series", "funnel", ""}

\* C22: given the same center and per-row standard deviation, the procedure
\* of u_chart_limits and that of p_chart_limits from the sort onwards (sort,
\* z-values, moving-range screen, merges, limits, prime limits, both
\* weights) return the same table up to the label of the center column; on
\* the same arguments the two operations end the same way (a table, None, or
\* the same exception); and chart_type has no effect on what u_chart_limits
\* returns.
C22_SameProcedure ==
    /\ C21_Case =>
          With([other \in {C22_Other} |->
          /\ other.kind = "table"
          /\ IF call.op = "P" THEN C22_Renamed(other.df, "u_bar", "p_bar") = ret.df
             ELSE C22_Renamed(other.df, "p_bar", "u_bar") = ret.df])
    /\ (pc = "returned" /\ call.op \in {"P", "U"}) =>
          With([other \in {Limits(IF call.op = "P" THEN "U" ELSE "P", source, call.multi_strats,
                                  IF call.omitted THEN List(<<>>) ELSE call.strats,
                                  quicksort_stable).ret} |->
          /\ other.kind = ret.kind
          /\ other.exc = ret.exc])
    /\ (pc = "returned" /\ call.op = "U" /\ ~call.omitted) =>
          \A chart_type \in C22_ChartTypes :
             u_chart_limits(source, "num", "den", "t", chart_type, call.multi_strats,
                            call.strats, quicksort_stable).ret = ret

\* C22, the state it speaks of: a stratified P call returned a table whose
\* standard limits differ from those of the U call on the same arguments,
\* and whose prime limits are defined
C22_VarianceTermDiffers ==
    /\ C21_Case
    /\ call.op = "P"
    /\ call.multi_strats
    /\ \E i \in 1..NRows(ret.df) :
          /\ IsFinite(ret.df.rows[i]["ucl_prime"])
          /\ ret.df.rows[i]["ucl_prime"] # ret.df.rows[i]["p_bar"]
          /\ Limits("U", source, TRUE, call.strats, quicksort_stable).ret.df.rows[i]["ucl"]
                # ret.df.rows[i]["ucl"]

\* ----- C23
\* the weight w is the distance of val beyond the violated limit in
\* half-widths of the band: below lcl it is -(lcl - val) / (center - lcl),
\* above ucl it is (val - ucl) / (ucl - center)
C23_Magnitude(val, lcl, center, ucl, w) ==
    /\ Lt(val, lcl) => w = Sub(Num(0), Div(Sub(lcl, val), Sub(center, lcl)))
    /\ Gt(val, ucl) => w = Div(Sub(val, ucl), Sub(ucl, center))

\* the center of a row of the table of the model
C23_Center(row) ==
    row[IF call.op = "I" THEN "i_bar" ELSE IF call.op = "P" THEN "p_bar" ELSE "u_bar"]

\* C23: in every row of a returned table sc_weight is the distance of the
\* value beyond the violated limit in half-widths of the band between the
\* center and that limit; for P and U sc_weight_prime is the same against
\* lcl_prime and ucl_prime with the same center; the I table has no
\* sc_weight_prime.
C23_WeightMagnitude ==
    (pc = "returned" /\ ret.kind = "table") =>
       /\ \A i \in 1..NRows(ret.df) :
             With([row \in {ret.df.rows[i]} |->
             /\ C23_Magnitude(ValOf(call.op, row), row["lcl"], C23_Center(row), row["ucl"],
                              row["sc_weight"])
             /\ call.op \in {"P", "U"} =>
                   C23_Magnitude(ValOf(call.op, row), row["lcl_prime"], C23_Center(row),
                                 row["ucl_prime"], row["sc_weight_prime"])])
       /\ call.op = "I" => ~HasCol(ret.df, "sc_weight_prime")

\* C23, the state it speaks of: a U table with a row below lcl_prime and a
\* row above ucl_prime whose prime weights are finite and are not the
\* standard weights
C23_PrimeWeights ==
    /\ pc = "returned"
    /\ call.op = "U"
    /\ ret.kind = "table"
    /\ \E i, j \in 1..NRows(ret.df) :
          /\ Lt(ValOf("U", ret.df.rows[i]), ret.df.rows[i]["lcl_prime"])
          /\ IsFinite(ret.df.rows[i]["sc_weight_prime"])
          /\ ret.df.rows[i]["sc_weight_prime"] # ret.df.rows[i]["sc_weight"]
          /\ Gt(ValOf("U", ret.df.rows[j]), ret.df.rows[j]["ucl_prime"])
          /\ IsFinite(ret.df.rows[j]["sc_weight_prime"])
          /\ ret.df.rows[j]["sc_weight_prime"] # ret.df.rows[j]["sc_weight"]

\* ----- C24
\* the last call returned a table, of any model
C24_Case ==
    /\ pc = "returned"
    /\ ret.kind = "table"
    /\ call.multi_strats => call.strats = List(<<"s">>)

\* The sequence the screen of the group of the row works on, in the order the
\* call sorted it: the focal values for I, the z-values for P and U.
C24_Vals(row) ==
    IF call.op = "I" THEN Col(C17_GroupOf(row), "num")
    ELSE C21_Z(C21_Sorted, row)

\* the screened estimate the call computed for row i (for P and U divided
\* by 1.128)
C24_Screened(i) ==
    IF call.op = "I"
    THEN IF call.multi_strats THEN C20_Multi.rows[i]["mr_bar"] ELSE C20_Single.mr_bar
    ELSE C21_Working.rows[i]["mr_bar_std"]

\* the group has at least two rows and its moving ranges are all defined
C24_AllDefined(vals) ==
    /\ Len(vals) >= 2
    /\ \A k \in 1..(Len(vals) - 1) : ~IsNaN(MovingRanges(vals)[k])

\* C24: in every group of at least two rows whose moving ranges are all
\* defined, in all three models, the screen retains at least one moving
\* range (the smallest is not above 3.27 times their mean) and the screened
\* estimate the call computed is defined.
C24_NeverAllDiscarded ==
    C24_Case =>
       \A i \in 1..NRows(ret.df) :
          With([vals \in {C24_Vals(ret.df.rows[i])} |->
          C24_AllDefined(vals) =>
             /\ Len(Retained(vals)) >= 1
             /\ ~IsNaN(C24_Screened(i))
             /\ (call.op = "I" /\ ~call.multi_strats) => NRows(C20_Single.dat2) >= 1])

\* C24, the state it speaks of: a U call whose screen discarded some moving
\* ranges of a group, all of them defined, and retained others
C24_SomeDiscarded ==
    /\ C24_Case
    /\ call.op = "U"
    /\ \E i \in 1..NRows(ret.df) :
          With([vals \in {C24_Vals(ret.df.rows[i])} |->
          /\ C24_AllDefined(vals)
          /\ Len(Retained(vals)) >= 1
          /\ Len(Retained(vals)) < Len(vals) - 1
          /\ IsFinite(C24_Screened(i))])

\* ----- C25
\* the limits lo and hi are both defined
C25_Defined(lo, hi) == IsFinite(lo) /\ IsFinite(hi)

\* the limits bracket the center, at the same distance from it
C25_Bracket(lo, center, hi) ==
    /\ Le(lo, center)
    /\ Le(center, hi)
    /\ Sub(center, lo) = Sub(hi, center)

C26_NotAfter(a, b) ==
    IF call.multi_strats
    THEN Lt(a["s"], b["s"]) \/ (a["s"] = b["s"] /\ Le(a["t"], b["t"]))
    ELSE Le(a["t"], b["t"])

\* the rows of the source that have their stratum in the returned table
\* (all of them when unstratified), in the order of the source
C26_InputOrder ==
    FilterSeq(source.rows, [i \in 1..NRows(source) |->
                 call.multi_strats => source.rows[i]["s"] \in C11_Present])

\* C26: the rows of a returned table are in display order: ascending by the
\* ordering column when unstratified, ascending by the strata column and
\* then the ordering column when stratified, so that the rows of a stratum
\* are contiguous; and the stratified table has the rows in the order the
\* sort gave them, the merges having changed nothing in it.
C26_DisplayOrder ==
    C24_Case =>
       /\ \A i, j \in 1..NRows(ret.df) :
             i < j => C26_NotAfter(ret.df.rows[i], ret.df.rows[j])
       /\ call.multi_strats =>
             ProjSeq(ret.df.rows) =
                ProjSeq(FilterSeq(C11_StableRows,
                           [i \in 1..Len(C11_StableRows) |->
                              C11_StableRows[i]["s"] \in C11_Present]))

\* C26, the state it speaks of: a stratified call returned the rows of two
\* strata, and an unstratified call its rows, in an order that is not the
\* order in which the caller gave them
C26_Reordered ==
    /\ C24_Case
    /\ call.multi_strats
    /\ Cardinality(C11_Present) >= 2
    /\ ProjSeq(ret.df.rows) # ProjSeq(C26_InputOrder)
    /\ ProjSeq(Limits(call.op, source, FALSE, List(<<>>), quicksort_stable).ret.df.rows)
          # ProjSeq(source.rows)


====
